---- MODULE Spec2Model ----
(***************************************************************************)
(* Telemetry aggregation layer of the GoBrrr pool web UI:                  *)
(*   - the access gate's rate limiter       (webui/lib/api-security.js)    *)
(*   - the framed protocol client           (webui/lib/ckpool-client.js)   *)
(*   - getPoolStats, three daemon commands  (webui/lib/ckpool-client.js)   *)
(*   - the reconciling cache and its sweeper (webui/lib/miner-cache.js,    *)
(*     webui/routes/index.js, routes/api.js, webui/server.js)              *)
(* Each part has its own specification over its own variables; the other   *)
(* parts' variables stay at their initial values.                          *)
(*   SpecRate   requests and the cleanup timer of the rate limiter         *)
(*   SpecFrame  one sendCommand call against any daemon behaviour          *)
(*   SpecPool   getPoolStats and the settling of its three commands        *)
(*   Spec       the request handlers that touch the cache, interleaved at  *)
(*              their awaits, and the sweeper                              *)
(*   SpecPrune  the cache module's functions called one at a time          *)
(*   SpecMerge  merge calls on one cache object                            *)
(*   SpecCall, SpecParse, SpecValidate  single functions on drawn inputs   *)
(*   SpecServe, SpecFault, SpecDisk, SpecBatch  whole requests on the      *)
(*              cache file, with and without read and write failures       *)
(*   SpecGate, SpecRoute  the middleware chain and GET /api/pool           *)
(*   SpecSettle the handlers of one sendCommand call in any order          *)
(*   SpecClean  the rate limiter beside a table no clean-up touches        *)
(*   SpecTimer  the sweeper's timeout and interval                         *)
(***************************************************************************)
EXTENDS Integers, Sequences, FiniteSets, TLC

VARIABLES
    rateLimitStore, rnow, rghost,
    sock, wire, responseBuffer, expectedLength, resolved, outcome, idle, elapsed, fghost,
    gpc, cmds, poolstats, gresult, gcalls,
    disk, now, awaiting, ev,
    mem, passed,
    call,
    poolCache, ptime,
    uptime, timer, runs

rateVars == <<rateLimitStore, rnow, rghost>>

frameVars == <<sock, wire, responseBuffer, expectedLength, resolved, outcome, idle, elapsed, fghost>>

poolVars == <<gpc, cmds, poolstats, gresult, gcalls>>

\* The cache file, the clock, the requests waiting for the daemon, the last operation.
cacheVars == <<disk, now, awaiting, ev>>

\* A cache object handed from one merge call to the next, and what was passed for each identity.
mergeVars == <<mem, passed>>

\* The last call of a function on inputs of its domain: the inputs and what it gave.
callVars == <<call>>

\* The snapshot GET /api/pool keeps, and its clock.
routeVars == <<poolCache, ptime>>

\* The time since the process started, the sweeper's pending timer, and the
\* times at which the sweeper ran.
timerVars == <<uptime, timer, runs>>

vars == <<rateVars, frameVars, poolVars, cacheVars, mergeVars, callVars, routeVars, timerVars>>

\* What an action of one part leaves alone: the other parts.
notRate == <<frameVars, poolVars, cacheVars, mergeVars, callVars, routeVars, timerVars>>

notFrame == <<rateVars, poolVars, cacheVars, mergeVars, callVars, routeVars, timerVars>>

notPool == <<rateVars, frameVars, cacheVars, mergeVars, callVars, routeVars, timerVars>>

notCache == <<rateVars, frameVars, poolVars, mergeVars, callVars, routeVars, timerVars>>

notMerge == <<rateVars, frameVars, poolVars, now, awaiting, ev, callVars, routeVars, timerVars>>

notCall == <<rateVars, frameVars, poolVars, cacheVars, mergeVars, routeVars, timerVars>>

notTimer == <<rateVars, frameVars, poolVars, mergeVars, callVars, routeVars>>

(***************************************************************************)
(* JavaScript objects used as maps: a function whose domain is the set of  *)
(* keys present.                                                           *)
(***************************************************************************)
EmptyMap == [k \in {} |-> 0]

Has(m, k) == k \in DOMAIN m

Put(m, k, v) == [x \in (DOMAIN m) \cup {k} |-> IF x = k THEN v ELSE m[x]]

Del(m, k) == [x \in (DOMAIN m) \ {k} |-> m[x]]

\* m[k] || d
GetOr(m, k, d) == IF k \in DOMAIN m THEN m[k] ELSE d

Max2(a, b) == IF a >= b THEN a ELSE b

(***************************************************************************)
(* Access gate: rate limiter (api-security.js)                             *)
(***************************************************************************)
RATE_LIMIT_WINDOW == 60000

RATE_LIMIT_MAX == 120

\* Client keys (req.ip); the first one is the client that sends a full burst.
BurstKey == "10.0.0.1"

ClientKeys == {BurstKey, "10.0.0.2"}

\* Requests per window the model lets the burst client send beyond RATE_LIMIT_MAX.
MaxOver == 2

\* Requests per window the model lets every other client send.
MaxOther == 2

\* The clock advances by 1 ms or by one window; at most MaxWindows windows
\* and MaxMs single milliseconds elapse.
MaxWindows == 2

MaxMs == 1

ReqCap(ip) == IF ip = BurstKey THEN RATE_LIMIT_MAX + MaxOver ELSE MaxOther

Pass == "next"

TooMany == "429"

\* data.count > RATE_LIMIT_MAX, with >= in the mutant
ExceedsOffByOne(count) == count >= RATE_LIMIT_MAX

Exceeds(count) == count > RATE_LIMIT_MAX

\* The test that also ends a window exactly RATE_LIMIT_WINDOW after its start.
WindowExpiredInclusive(store, ip, t) ==
    IF ~Has(store, ip) THEN TRUE ELSE t - store[ip].windowStart >= RATE_LIMIT_WINDOW

\* !data || now - data.windowStart > RATE_LIMIT_WINDOW
WindowExpired(store, ip, t) ==
    IF ~Has(store, ip) THEN TRUE ELSE t - store[ip].windowStart > RATE_LIMIT_WINDOW

\* rateLimit(req, res, next): the store after the request and the answer
\* (Pass: next() is called; TooMany: 429 is sent and next() is not called).
RateLimit(store, ip, t) ==
    LET data == IF WindowExpired(store, ip, t)
                THEN [windowStart |-> t, count |-> 0]
                ELSE store[ip]
        counted == [data EXCEPT !.count = @ + 1]
    IN  [store |-> Put(store, ip, counted),
         status |-> IF Exceeds(counted.count) THEN TooMany ELSE Pass]

\* A clean-up that deletes every entry.
CleanStoreAll(store, t) == EmptyMap

\* The setInterval callback: entries older than two windows are deleted.
CleanStore(store, t) ==
    [k \in {x \in DOMAIN store : ~(t - store[x].windowStart > RATE_LIMIT_WINDOW * 2)}
        |-> store[k]]

\* Observer of the requests of one client key, kept apart from the store:
\* first = arrival time of the first request of the current run of requests
\* that all arrived within RATE_LIMIT_WINDOW of it, n = requests in that run,
\* rejected = how many of them got 429, last = the answer to the latest one.
NoRun == [first |-> -1, n |-> 0, rejected |-> 0, last |-> Pass]

Observe(g, t, status) ==
    LET fresh == g.first < 0 \/ t - g.first > RATE_LIMIT_WINDOW
        base == IF fresh THEN [first |-> t, n |-> 0, rejected |-> 0, last |-> Pass] ELSE g
    IN  [first |-> base.first,
         n |-> base.n + 1,
         rejected |-> base.rejected + (IF status = TooMany THEN 1 ELSE 0),
         last |-> status]

InitRate ==
    /\ rateLimitStore = EmptyMap
    /\ rnow = 0
    /\ rghost = [k \in ClientKeys |-> NoRun]

Request(ip) ==
    /\ IF WindowExpired(rateLimitStore, ip, rnow)
       THEN TRUE
       ELSE rateLimitStore[ip].count < ReqCap(ip)
    /\ LET r == RateLimit(rateLimitStore, ip, rnow)
       IN  /\ rateLimitStore' = r.store
           /\ rghost' = [rghost EXCEPT ![ip] = Observe(@, rnow, r.status)]
           /\ call' = [fn |-> "rateLimit", ip |-> ip, t |-> rnow, status |-> r.status,
                       old |-> IF Has(rateLimitStore, ip)
                               THEN [has |-> TRUE, windowStart |-> rateLimitStore[ip].windowStart,
                                     count |-> rateLimitStore[ip].count]
                               ELSE [has |-> FALSE, windowStart |-> 0, count |-> 0]]
    /\ UNCHANGED <<rnow, frameVars, poolVars, cacheVars, mergeVars, routeVars, timerVars>>

CleanUp ==
    /\ rateLimitStore' = CleanStore(rateLimitStore, rnow)
    /\ rateLimitStore' # rateLimitStore
    /\ UNCHANGED <<rnow, rghost, notRate>>

TickRate(d) ==
    /\ d \in {1, RATE_LIMIT_WINDOW}
    /\ d = 1 => rnow % RATE_LIMIT_WINDOW < MaxMs
    /\ d = RATE_LIMIT_WINDOW => rnow \div RATE_LIMIT_WINDOW < MaxWindows
    /\ rnow' = rnow + d
    /\ UNCHANGED <<rateLimitStore, rghost, notRate>>

\* The table as it would be with the clean-up disabled, carried along with
\* the requests.
StoreOff == IF call.fn = "rateLimit, clean-up off" THEN call.storeOff ELSE EmptyMap

\* A request answered by rateLimit on the table, and beside it by rateLimit
\* on the table no clean-up has touched. cleaned: the clean-up had deleted
\* this key's entry; offCount: the count that entry held.
RequestBoth(ip) ==
    /\ IF WindowExpired(rateLimitStore, ip, rnow)
       THEN TRUE
       ELSE rateLimitStore[ip].count < ReqCap(ip)
    /\ LET r == RateLimit(rateLimitStore, ip, rnow)
           off == RateLimit(StoreOff, ip, rnow)
       IN  /\ rateLimitStore' = r.store
           /\ rghost' = [rghost EXCEPT ![ip] = Observe(@, rnow, r.status)]
           /\ call' = [fn |-> "rateLimit, clean-up off", ip |-> ip,
                       status |-> r.status, statusOff |-> off.status, storeOff |-> off.store,
                       cleaned |-> ~Has(rateLimitStore, ip) /\ Has(StoreOff, ip),
                       offCount |-> IF Has(StoreOff, ip) THEN StoreOff[ip].count ELSE 0]
    /\ UNCHANGED <<rnow, frameVars, poolVars, cacheVars, mergeVars, routeVars, timerVars>>

NextClean ==
    \/ \E ip \in ClientKeys : RequestBoth(ip)
    \/ CleanUp
    \/ \E d \in {1, RATE_LIMIT_WINDOW} : TickRate(d)

NextRate ==
    \/ \E ip \in ClientKeys : Request(ip)
    \/ CleanUp
    \/ \E d \in {1, RATE_LIMIT_WINDOW} : TickRate(d)

(***************************************************************************)
(* Access gate: protectApi behind rateLimit (api-security.js, server.js)   *)
(***************************************************************************)
\* crypto.randomBytes(32).toString('hex'), drawn once when the process starts.
API_TOKEN == "9f2c-token-of-this-process"

\* A header that is absent, or a header value || ''.
NoHeader == <<>>

\* Header values are sequences of pieces of text; includes() looks for a run
\* of pieces.
Includes(text, part) ==
    \E i \in 0..(Len(text) - Len(part)) : SubSeq(text, i + 1, i + Len(part)) = part

ServingHost == <<"pool.example:3000">>

Origins ==
    {NoHeader, <<"http://">> \o ServingHost, <<"http://", "localhost", ":3000">>,
     <<"http://", "127.0.0.1", ":3000">>, <<"https://", "evil.example">>}

Referers ==
    {NoHeader, <<"http://">> \o ServingHost \o <<"/stats">>, <<"https://", "evil.example", "/page">>}

Markers == {"internal", ""}

Tokens == {API_TOKEN, "0000-some-other-token", ""}

HealthPath == "/health"

ApiRequest(path, marker, token, origin, referer) ==
    [path |-> path, marker |-> marker, token |-> token, origin |-> origin,
     referer |-> referer, host |-> ServingHost]

\* Requests that differ in what they present as marker and token, requests
\* that present both and differ in Origin and Referer, and health probes.
ApiRequests ==
    {ApiRequest("/pool", m, t, NoHeader, NoHeader) : m \in Markers, t \in Tokens}
        \cup {ApiRequest("/pool", "internal", API_TOKEN, o, r) : o \in Origins, r \in Referers}
        \cup {ApiRequest(HealthPath, "", "", o, NoHeader) : o \in Origins}

\* What the burst client sends.
BurstRequests ==
    {ApiRequest(HealthPath, "", "", NoHeader, NoHeader),
     ApiRequest("/pool", "internal", API_TOKEN, NoHeader, NoHeader)}

\* !value || value.includes(host) || value.includes('localhost') || value.includes('127.0.0.1')
IsValidSource(value, host) ==
    \/ value = NoHeader
    \/ Includes(value, host)
    \/ Includes(value, <<"localhost">>)
    \/ Includes(value, <<"127.0.0.1">>)

Next403(error) == [status |-> "403", error |-> error]

PassedOn == [status |-> Pass, error |-> ""]

\* A gate that checks the marker and not the token.
ProtectApiMarkerOnly(req) ==
    IF req.path = HealthPath THEN PassedOn
    ELSE IF req.marker # "internal" THEN Next403("Direct API access not allowed")
    ELSE PassedOn

\* A gate without the exemption of the health path.
ProtectApiHealthToo(req) ==
    IF req.marker # "internal" THEN Next403("Direct API access not allowed")
    ELSE IF req.token # API_TOKEN THEN Next403("Invalid or missing API token")
    ELSE PassedOn

\* protectApi(req, res, next): PassedOn when next() is called.
ProtectApi(req) ==
    IF req.path = HealthPath THEN PassedOn
    ELSE IF req.marker # "internal" THEN Next403("Direct API access not allowed")
    ELSE IF req.token # API_TOKEN THEN Next403("Invalid or missing API token")
    ELSE IF ~IsValidSource(req.origin, req.host) /\ ~IsValidSource(req.referer, req.host)
         THEN Next403("Cross-origin requests not allowed")
    ELSE PassedOn

\* app.use('/api', rateLimit, protectApi, apiRoutes): one request through
\* the chain. limited: rateLimit answered 429 and the chain stopped there;
\* routed: the request reached the routes.
Api(ip, req) ==
    /\ IF WindowExpired(rateLimitStore, ip, rnow)
       THEN TRUE
       ELSE rateLimitStore[ip].count < ReqCap(ip)
    /\ LET r == RateLimit(rateLimitStore, ip, rnow)
           limited == r.status = TooMany
           p == ProtectApi(req)
       IN  /\ rateLimitStore' = r.store
           /\ rghost' = [rghost EXCEPT ![ip] = Observe(@, rnow, r.status)]
           /\ call' = [fn |-> "api", ip |-> ip, req |-> req,
                       before |-> IF WindowExpired(rateLimitStore, ip, rnow) THEN 0
                                  ELSE rateLimitStore[ip].count,
                       count |-> r.store[ip].count,
                       limited |-> limited,
                       status |-> IF limited THEN TooMany ELSE p.status,
                       error |-> IF limited THEN "Too many requests. Please slow down." ELSE p.error,
                       routed |-> ~limited /\ p.status = Pass]
    /\ UNCHANGED <<rnow, frameVars, poolVars, cacheVars, mergeVars, routeVars, timerVars>>

\* server.js: the middleware a request meets, by the mount its path falls
\* under: app.use('/', indexRoutes), then app.use('/api', rateLimit,
\* protectApi, apiRoutes). indexRoutes has no route under /api.
ChainOf(mount) ==
    IF mount = "/api" THEN <<"rateLimit", "protectApi", "apiRoutes">> ELSE <<"indexRoutes">>

PageRoutes == {"/stats/:address", "/stats/:address/:worker"}

\* A page request with a valid address: the handler sends its daemon
\* commands and, the daemon answering, loads, merges and saves the cache.
\* counted: rateLimit was in its chain; over: the client's window holds
\* RATE_LIMIT_MAX requests or more, so rateLimit would answer 429.
PageArrives(ip, route) ==
    /\ LET chain == ChainOf("/")
           counted == \E i \in 1..Len(chain) : chain[i] = "rateLimit"
       IN /\ call' = [fn |-> "page", ip |-> ip, route |-> route, counted |-> counted,
                      over |-> IF WindowExpired(rateLimitStore, ip, rnow) THEN FALSE
                               ELSE Exceeds(rateLimitStore[ip].count + 1),
                      commands |-> IF route = "/stats/:address" THEN {"getuser", "ucinfo"}
                                   ELSE {"getworker", "wcinfo"},
                      writes |-> 1]
    /\ UNCHANGED <<rateVars, frameVars, poolVars, cacheVars, mergeVars, routeVars, timerVars>>

NextGate ==
    \/ \E req \in BurstRequests : Api(BurstKey, req)
    \/ \E ip \in ClientKeys \ {BurstKey}, req \in ApiRequests : Api(ip, req)
    \/ \E ip \in ClientKeys, route \in PageRoutes : PageArrives(ip, route)

(***************************************************************************)
(* Protocol client: sendCommand (ckpool-client.js)                         *)
(***************************************************************************)
SOCKET_TIMEOUT == 5000

\* The clock of one call advances in steps of half the socket timeout, for at
\* most MaxHalves steps.
HalfTimeout == SOCKET_TIMEOUT \div 2

MaxHalves == 3

\* Longest payload the daemon sends.
MaxLen == 3

\* Payload bytes: the ASCII codes of "1", "{" and "}".
PayloadBytes == {49, 123, 125}

Payloads == UNION {[1..n -> PayloadBytes] : n \in 0..MaxLen}

RECURSIVE Pow(_, _)
Pow(b, n) == IF n = 0 THEN 1 ELSE b * Pow(b, n - 1)

\* Buffer.writeUInt32LE(n, 0)
WriteUInt32LE(n) == [i \in 1..4 |-> (n \div Pow(256, i - 1)) % 256]

\* The mutant reads the prefix big-endian.
ReadUInt32BE(b) == b[4] + 256 * b[3] + 65536 * b[2] + 16777216 * b[1]

\* Buffer.readUInt32LE(0)
ReadUInt32LE(b) == b[1] + 256 * b[2] + 65536 * b[3] + 16777216 * b[4]

\* Buffer.slice(from) and Buffer.slice(0, n), 0-based as in the source
SliceFrom(b, from) == SubSeq(b, from + 1, Len(b))

SliceTo(b, n) == SubSeq(b, 1, IF n < Len(b) THEN n ELSE Len(b))

\* Buffer.toString('utf8') on the bytes the model uses: one character per
\* byte, control bytes included.
Chr(b) ==
    CASE b = 49 -> "1"
      [] b = 123 -> "{"
      [] b = 125 -> "}"
      [] b = 0 -> "\\u0000"
      [] b = 1 -> "\\u0001"
      [] b = 2 -> "\\u0002"
      [] b = 3 -> "\\u0003"
      [] b = 4 -> "\\u0004"
      [] b = 5 -> "\\u0005"
      [] OTHER -> "\\ufffd"

Utf8ToString(b) == [i \in 1..Len(b) |-> Chr(b[i])]

\* JSON.parse restricted to texts over the model's characters: a run of the
\* digit 1 is a number, "{}" is the empty object, everything else throws.
IsJsonNumber(str) == Len(str) > 0 /\ \A i \in 1..Len(str) : str[i] = "1"

IsJsonObject(str) == str = <<"{", "}">>

RECURSIVE NumberValue(_)
NumberValue(str) == IF Len(str) = 0 THEN 0 ELSE 10 * NumberValue(SubSeq(str, 1, Len(str) - 1)) + 1

\* try { resolve(JSON.parse(message)) } catch (e) { resolve(message) }
ParseOrRaw(str) ==
    IF IsJsonNumber(str) THEN [type |-> "number", num |-> NumberValue(str), str |-> <<>>]
    ELSE IF IsJsonObject(str) THEN [type |-> "object", num |-> 0, str |-> <<>>]
    ELSE [type |-> "string", num |-> 0, str |-> str]

Pending == [kind |-> "pending"]

Resolved(v) == [kind |-> "resolved", value |-> v]

Rejected(e) == [kind |-> "rejected", error |-> e]

\* A promise that takes the last resolve or reject.
SettleLast(o, new) == new

\* A promise settles once: resolve and reject after that are ignored.
Settle(o, new) == IF o = Pending THEN new ELSE o

\* The command written on connect.
Command == <<112, 111, 111, 108>>

\* What the daemon has to send back: the 4-byte prefix declaring the length
\* of the payload, then the payload. How much of it arrives, in which reads
\* and when is the daemon's choice (OnData, OnEnd, TickFrame): a reply cut
\* short is a frame that never completes.
Frame(p) == WriteUInt32LE(Len(p)) \o p

InitFrame ==
    /\ sock = "none"
    /\ wire = <<>>
    /\ responseBuffer = <<>>
    /\ expectedLength = -1
    /\ resolved = FALSE
    /\ outcome = [kind |-> "none"]
    /\ idle = 0
    /\ elapsed = 0
    /\ fghost = [payload |-> <<>>, reads |-> 0, firstRead |-> 0, out |-> <<>>]

\* sendCommand on a socket path that does not exist: rejected at once.
StartNotFound ==
    /\ sock = "none" /\ outcome.kind = "none"
    /\ outcome' = Rejected("Socket not found")
    /\ UNCHANGED <<sock, wire, responseBuffer, expectedLength, resolved, idle, elapsed, fghost>>
    /\ UNCHANGED notFrame

\* sendCommand: net.createConnection, the buffers, client.setTimeout.
StartCall ==
    /\ sock = "none" /\ outcome.kind = "none"
    /\ sock' = "connecting"
    /\ outcome' = Pending
    /\ responseBuffer' = <<>>
    /\ expectedLength' = -1
    /\ resolved' = FALSE
    /\ idle' = 0
    /\ elapsed' = 0
    /\ UNCHANGED <<wire, fghost>>
    /\ UNCHANGED notFrame

\* 'connect': the framed command is written; the daemon chooses its reply.
OnConnect(p) ==
    /\ sock = "connecting"
    /\ sock' = "open"
    /\ wire' = Frame(p)
    /\ fghost' = [fghost EXCEPT !.payload = p,
                                !.out = WriteUInt32LE(Len(Command)) \o Command]
    /\ idle' = 0
    /\ UNCHANGED <<responseBuffer, expectedLength, resolved, outcome, elapsed>>
    /\ UNCHANGED notFrame

\* The 'data' handler on one chunk: the fields after it and whether it
\* completed the frame.
DataHandler(buf0, exp0, res0, out0, chunk) ==
    LET cat == buf0 \o chunk
        gotLen == exp0 = -1 /\ Len(cat) >= 4
        exp1 == IF gotLen THEN ReadUInt32LE(cat) ELSE exp0
        buf1 == IF gotLen THEN SliceFrom(cat, 4) ELSE cat
        complete == exp1 # -1 /\ Len(buf1) >= exp1
        fire == complete /\ ~res0
    IN  [responseBuffer |-> buf1,
         expectedLength |-> exp1,
         resolved |-> res0 \/ fire,
         ended |-> fire,
         outcome |-> IF fire
                     THEN Settle(out0, Resolved(ParseOrRaw(Utf8ToString(SliceTo(buf1, exp1)))))
                     ELSE out0]

\* 'data': the next k bytes of the reply arrive in one read.
OnData(k) ==
    /\ sock \in {"open", "halfclosed"}
    /\ k \in 1..Len(wire)
    /\ LET r == DataHandler(responseBuffer, expectedLength, resolved, outcome,
                            SubSeq(wire, 1, k))
       IN  /\ responseBuffer' = r.responseBuffer
           /\ expectedLength' = r.expectedLength
           /\ resolved' = r.resolved
           /\ outcome' = r.outcome
           /\ sock' = IF r.ended THEN "halfclosed" ELSE sock
    /\ wire' = SubSeq(wire, k + 1, Len(wire))
    /\ fghost' = [fghost EXCEPT !.reads = IF @ < 3 THEN @ + 1 ELSE @,
                                !.firstRead = IF fghost.reads = 0 THEN k ELSE @]
    /\ idle' = 0
    /\ UNCHANGED elapsed
    /\ UNCHANGED notFrame

\* An 'end' handler that rejects whenever the call has not resolved.
OnEndRejects ==
    /\ sock \in {"open", "halfclosed"}
    /\ sock' = "ended"
    /\ IF ~resolved
       THEN /\ outcome' = Settle(outcome, Rejected("Connection closed without response"))
            /\ UNCHANGED resolved
       ELSE UNCHANGED <<resolved, outcome>>
    /\ UNCHANGED <<wire, responseBuffer, expectedLength, idle, elapsed, fghost>>
    /\ UNCHANGED notFrame

\* 'end': the daemon closes its side, whatever it has sent so far.
OnEnd ==
    /\ sock \in {"open", "halfclosed"}
    /\ sock' = "ended"
    /\ IF ~resolved /\ Len(responseBuffer) > 0
       THEN /\ resolved' = TRUE
            /\ outcome' = Settle(outcome, Resolved(ParseOrRaw(Utf8ToString(responseBuffer))))
       ELSE IF ~resolved
       THEN /\ outcome' = Settle(outcome, Rejected("Connection closed without response"))
            /\ UNCHANGED resolved
       ELSE UNCHANGED <<resolved, outcome>>
    /\ UNCHANGED <<wire, responseBuffer, expectedLength, idle, elapsed, fghost>>
    /\ UNCHANGED notFrame

\* 'error'
OnError ==
    /\ sock \in {"connecting", "open", "halfclosed"}
    /\ sock' = "errored"
    /\ IF ~resolved
       THEN /\ resolved' = TRUE
            /\ outcome' = Settle(outcome, Rejected("Socket error"))
       ELSE UNCHANGED <<resolved, outcome>>
    /\ UNCHANGED <<wire, responseBuffer, expectedLength, idle, elapsed, fghost>>
    /\ UNCHANGED notFrame

\* 'timeout': no activity on the socket for SOCKET_TIMEOUT.
OnTimeout ==
    /\ sock \in {"connecting", "open", "halfclosed"}
    /\ idle >= SOCKET_TIMEOUT
    /\ IF ~resolved
       THEN /\ resolved' = TRUE
            /\ sock' = "destroyed"
            /\ outcome' = Settle(outcome, Rejected("Socket timeout"))
       ELSE UNCHANGED <<resolved, sock, outcome>>
    /\ idle' = 0
    /\ UNCHANGED <<wire, responseBuffer, expectedLength, elapsed, fghost>>
    /\ UNCHANGED notFrame

\* 'close': after the end, an error or destroy.
OnClose ==
    /\ sock \in {"ended", "errored", "destroyed"}
    /\ sock' = "closed"
    /\ IF ~resolved
       THEN /\ resolved' = TRUE
            /\ outcome' = Settle(outcome, Rejected("Connection closed"))
       ELSE UNCHANGED <<resolved, outcome>>
    /\ UNCHANGED <<wire, responseBuffer, expectedLength, idle, elapsed, fghost>>
    /\ UNCHANGED notFrame

\* Time passes on a live socket; the idle timer fires before more than
\* SOCKET_TIMEOUT of inactivity accumulates.
TickFrame ==
    /\ sock \in {"connecting", "open", "halfclosed"}
    /\ idle < SOCKET_TIMEOUT
    /\ elapsed < MaxHalves * HalfTimeout
    /\ idle' = idle + HalfTimeout
    /\ elapsed' = elapsed + HalfTimeout
    /\ UNCHANGED <<sock, wire, responseBuffer, expectedLength, resolved, outcome, fghost>>
    /\ UNCHANGED notFrame

NextFrame ==
    \/ StartNotFound
    \/ StartCall
    \/ \E p \in Payloads : OnConnect(p)
    \/ \E k \in 1..(MaxLen + 4) : OnData(k)
    \/ OnEnd
    \/ OnError
    \/ OnTimeout
    \/ OnClose
    \/ TickFrame

\* The five handlers of one call applied in any order: what a handler
\* leaves of the call's fields when its event is emitted, whatever was
\* emitted before. st holds responseBuffer, expectedLength, resolved,
\* outcome and sock.
SocketEvents == {"data", "end", "error", "timeout", "close"}

\* A timeout handler that rejects and leaves the socket as it is.
HandleTimeoutNoDestroy(st) ==
    IF st.resolved THEN st
    ELSE [st EXCEPT !.resolved = TRUE, !.outcome = Settle(@, Rejected("Socket timeout"))]

HandleEnd(st) ==
    IF ~st.resolved /\ Len(st.responseBuffer) > 0
    THEN [st EXCEPT !.resolved = TRUE,
                    !.outcome = Settle(@, Resolved(ParseOrRaw(Utf8ToString(st.responseBuffer))))]
    ELSE IF ~st.resolved
    THEN [st EXCEPT !.outcome = Settle(@, Rejected("Connection closed without response"))]
    ELSE st

HandleError(st) ==
    IF st.resolved THEN st
    ELSE [st EXCEPT !.resolved = TRUE, !.outcome = Settle(@, Rejected("Socket error"))]

HandleTimeout(st) ==
    IF st.resolved THEN st
    ELSE [st EXCEPT !.resolved = TRUE, !.sock = "destroyed",
                    !.outcome = Settle(@, Rejected("Socket timeout"))]

HandleClose(st) ==
    IF st.resolved THEN [st EXCEPT !.sock = "closed"]
    ELSE [st EXCEPT !.resolved = TRUE, !.sock = "closed",
                    !.outcome = Settle(@, Rejected("Connection closed"))]

HandleData(st, chunk) ==
    LET r == DataHandler(st.responseBuffer, st.expectedLength, st.resolved, st.outcome, chunk)
    IN [st EXCEPT !.responseBuffer = r.responseBuffer, !.expectedLength = r.expectedLength,
                  !.resolved = r.resolved, !.outcome = r.outcome]

\* Event e is emitted on a socket that has not emitted 'close'; 'data'
\* carries the next k bytes of the reply. The event and the outcome before
\* it are recorded.
Emit(e, k) ==
    /\ sock \notin {"none", "closed"}
    /\ e = "data" => sock # "connecting" /\ k \in 1..Len(wire)
    /\ e # "data" => k = 1
    /\ LET st == [responseBuffer |-> responseBuffer, expectedLength |-> expectedLength,
                  resolved |-> resolved, outcome |-> outcome, sock |-> sock]
           r == CASE e = "data" -> HandleData(st, SubSeq(wire, 1, k))
                  [] e = "end" -> HandleEnd(st)
                  [] e = "error" -> HandleError(st)
                  [] e = "timeout" -> HandleTimeout(st)
                  [] e = "close" -> HandleClose(st)
       IN /\ responseBuffer' = r.responseBuffer
          /\ expectedLength' = r.expectedLength
          /\ resolved' = r.resolved
          /\ outcome' = r.outcome
          /\ sock' = r.sock
    /\ wire' = IF e = "data" THEN SubSeq(wire, k + 1, Len(wire)) ELSE wire
    /\ call' = [fn |-> "sendCommand", event |-> e, was |-> outcome]
    /\ UNCHANGED <<idle, elapsed, fghost>>
    /\ UNCHANGED <<rateVars, poolVars, cacheVars, mergeVars, routeVars, timerVars>>

NextSettle ==
    \/ StartCall
    \/ \E p \in Payloads : OnConnect(p)
    \/ \E e \in SocketEvents, k \in 1..(MaxLen + 4) : Emit(e, k)

(***************************************************************************)
(* Protocol client: getPoolStats (ckpool-client.js)                        *)
(***************************************************************************)
Cmds == {"poolstats", "stratifierstats", "connectorstats"}

\* What the daemon answers to a command.
Replies == {"replyA", "replyB"}

Null == "null"

\* Calls of getPoolStats the model follows.
MaxCalls == 2

Unsent == [st |-> "unsent", value |-> Null]

InFlight == [st |-> "pending", value |-> Null]

Settled(c) == c.st \in {"resolved", "rejected"}

InitPool ==
    /\ gpc = "idle"
    /\ cmds = [c \in Cmds |-> Unsent]
    /\ poolstats = Null
    /\ gresult = [returned |-> FALSE]
    /\ gcalls = 0

\* The mutant sends the three commands at once.
GetPoolStatsAllAtOnce ==
    /\ gpc = "idle" /\ gcalls < MaxCalls
    /\ gpc' = "awaitPoolstats"
    /\ cmds' = [c \in Cmds |-> InFlight]
    /\ poolstats' = Null
    /\ gresult' = [returned |-> FALSE]
    /\ gcalls' = gcalls + 1
    /\ UNCHANGED notPool

\* getPoolStats up to its first await: poolstats is sent on the stratifier
\* socket and awaited alone.
GetPoolStats ==
    /\ gpc = "idle" /\ gcalls < MaxCalls
    /\ gpc' = "awaitPoolstats"
    /\ cmds' = [c \in Cmds |-> IF c = "poolstats" THEN InFlight ELSE Unsent]
    /\ poolstats' = Null
    /\ gresult' = [returned |-> FALSE]
    /\ gcalls' = gcalls + 1
    /\ UNCHANGED notPool

\* A sendCommand promise settles: resolved with the daemon's reply, or
\* rejected (socket not found, error, timeout, close).
CommandResolves(c, v) ==
    /\ cmds[c].st = "pending"
    /\ cmds' = [cmds EXCEPT ![c] = [st |-> "resolved", value |-> v]]
    /\ UNCHANGED <<gpc, poolstats, gresult, gcalls, notPool>>

CommandRejects(c) ==
    /\ cmds[c].st = "pending"
    /\ cmds' = [cmds EXCEPT ![c] = [st |-> "rejected", value |-> Null]]
    /\ UNCHANGED <<gpc, poolstats, gresult, gcalls, notPool>>

\* After the first await: the inner catch leaves poolstats null on failure;
\* stratifierstats and connectorstats are sent together under Promise.all.
AfterPoolstats ==
    /\ gpc = "awaitPoolstats"
    /\ Settled(cmds["poolstats"])
    /\ poolstats' = IF cmds["poolstats"].st = "resolved" THEN cmds["poolstats"].value ELSE Null
    /\ cmds' = [c \in Cmds |-> IF c = "poolstats" THEN cmds[c] ELSE InFlight]
    /\ gpc' = "awaitBoth"
    /\ UNCHANGED <<gresult, gcalls, notPool>>

\* Promise.all settles: fulfilled when both are, rejected as soon as one is.
AllFulfilled == cmds["stratifierstats"].st = "resolved" /\ cmds["connectorstats"].st = "resolved"

AnyRejected == cmds["stratifierstats"].st = "rejected" \/ cmds["connectorstats"].st = "rejected"

\* The value getPoolStats returns (without its timestamp); the outer catch
\* returns three nulls.
PoolStatsResult ==
    IF AllFulfilled
    THEN [poolstats |-> poolstats,
          stratifier |-> cmds["stratifierstats"].value,
          connector |-> cmds["connectorstats"].value]
    ELSE [poolstats |-> Null, stratifier |-> Null, connector |-> Null]

AfterBoth ==
    /\ gpc = "awaitBoth"
    /\ AllFulfilled \/ AnyRejected
    /\ gresult' = [returned |-> TRUE, value |-> PoolStatsResult, at |-> cmds]
    /\ gpc' = "returned"
    /\ UNCHANGED <<cmds, poolstats, gcalls, notPool>>

\* The caller has used the result; the handler is free for the next call.
\* Commands of the finished call that are still pending settle unobserved.
CallDone ==
    /\ gpc = "returned"
    /\ gpc' = "idle"
    /\ cmds' = [c \in Cmds |-> Unsent]
    /\ poolstats' = Null
    /\ gresult' = [returned |-> FALSE]
    /\ UNCHANGED <<gcalls, notPool>>

NextPool ==
    \/ GetPoolStats
    \/ \E c \in Cmds, v \in Replies : CommandResolves(c, v)
    \/ \E c \in Cmds : CommandRejects(c)
    \/ AfterPoolstats
    \/ AfterBoth
    \/ CallDone

(***************************************************************************)
(* Reconciling cache (miner-cache.js)                                      *)
(*                                                                         *)
(* A worker name is the sequence of its dot-separated segments, so that    *)
(* split('.') is the name itself and join('.') builds one.                 *)
(***************************************************************************)
Address == "bc1qminer"

Rig == "rig1"

\* Names under which the daemon reports workers: the bare address, address.rig.
WorkerNames == {<<Address>>, <<Address, Rig>>}

\* worker.worker || worker.workername || '' when the record has neither.
NoName == <<>>

\* Highest difficulty the daemon or a ckpool file reports.
MaxDiff == 2

Diffs == 0..MaxDiff

StartTime == 1

SecondsPerDay == 86400

DefaultMaxAgeDays == 28

\* The clock advances by the default retention period, MaxPeriods times.
MaxPeriods == 2

Period == DefaultMaxAgeDays * SecondsPerDay

MaxAgeChoices == {0, DefaultMaxAgeDays}

\* The maximum that leaves its last argument out.
Max3FirstTwo(a, b, c) == Max2(a, b)

Max3(a, b, c) == Max2(a, Max2(b, c))

EmptyCache == [workers |-> EmptyMap, users |-> EmptyMap, bestDiffs |-> EmptyMap, lastSeenAt |-> EmptyMap]

NoFile == [exists |-> FALSE, cache |-> EmptyCache]

\* The file as loadCache returns it; without a file, the empty default.
LoadCache(file) == IF file.exists THEN file.cache ELSE EmptyCache

\* writeFileSync of the whole cache object: the file is replaced.
SaveCache(cache) == [exists |-> TRUE, cache |-> cache]

\* parseMinerType on the user agents the model's daemon reports.
UserAgents == {"", "bitaxe/2.1"}

ParseMinerType(useragent) ==
    CASE useragent = "" -> "Unknown Miner"
      [] useragent = "bitaxe/2.1" -> "Bitaxe"
      [] OTHER -> useragent

\* fullName.split('.')[0]
UserOf(name) == IF name = <<>> THEN "" ELSE name[1]

\* A touch that records the parsed type whether or not there is a user agent.
TouchClientAnyAgent(cache, client, t) ==
    IF client.workername = NoName THEN cache
    ELSE LET name == ParseMinerType(client.useragent)
             user == UserOf(client.workername)
         IN [cache EXCEPT !.lastSeenAt = Put(@, client.workername, t),
                          !.workers = Put(@, client.workername, name),
                          !.users = IF user = "" THEN @ ELSE Put(@, user, name)]

\* One client of updateFromClients' forEach.
TouchClient(cache, client, t) ==
    IF client.workername = NoName THEN cache
    ELSE LET seen == [cache EXCEPT !.lastSeenAt = Put(@, client.workername, t)]
         IN IF client.useragent = "" THEN seen
            ELSE LET name == ParseMinerType(client.useragent)
                     user == UserOf(client.workername)
                     typed == [seen EXCEPT !.workers = Put(@, client.workername, name)]
                 IN IF user = "" THEN typed
                    ELSE [typed EXCEPT !.users = Put(@, user, name)]

RECURSIVE TouchClients(_, _, _)
TouchClients(cache, clients, t) ==
    IF clients = <<>> THEN cache
    ELSE TouchClients(TouchClient(cache, Head(clients), t), Tail(clients), t)

AnyNamed(list) == \E i \in 1..Len(list) : list[i].workername # NoName

\* updateFromClients(clients, parseMinerType): the cache it returns and the
\* file it leaves, written when at least one client had a name.
UpdateFromClients(file, clients, t) ==
    LET cache == TouchClients(LoadCache(file), clients, t)
    IN [cache |-> cache, file |-> IF AnyNamed(clients) THEN SaveCache(cache) ELSE file]

\* A lookup that goes straight to the owner address.
GetMinerTypeOfUser(fullName, cache) ==
    IF UserOf(fullName) # "" /\ Has(cache.users, UserOf(fullName)) THEN cache.users[UserOf(fullName)]
    ELSE "Unknown"

\* getMinerType(fullName, cache): the worker's own type, else the type of
\* the address before the first dot, else 'Unknown'.
GetMinerType(fullName, cache) ==
    IF Has(cache.workers, fullName) THEN cache.workers[fullName]
    ELSE IF UserOf(fullName) # "" /\ Has(cache.users, UserOf(fullName)) THEN cache.users[UserOf(fullName)]
    ELSE "Unknown"

\* A merge that stores any figure that differs from the stored one.
DiffersFrom(currentBest, storedBest) == currentBest # storedBest

\* currentBest > storedBest
BetterThan(currentBest, storedBest) == currentBest > storedBest

\* Math.max(worker.bestever || 0, worker.bestshare || 0, worker.bestdiff || 0)
CurrentBest(worker) == Max3(worker.bestever, worker.bestshare, worker.bestdiff)

\* A merge that stamps the time the module was loaded.
MergeWorkerStampsStart(cache, worker, t) ==
    IF worker.worker = NoName THEN cache
    ELSE [cache EXCEPT !.lastSeenAt = Put(@, worker.worker, StartTime)]

\* One worker of updateBestDiffs' forEach.
MergeWorker(cache, worker, t) ==
    IF worker.worker = NoName THEN cache
    ELSE LET seen == [cache EXCEPT !.lastSeenAt = Put(@, worker.worker, t)]
             currentBest == CurrentBest(worker)
             storedBest == GetOr(seen.bestDiffs, worker.worker, 0)
         IN IF currentBest > 0 /\ BetterThan(currentBest, storedBest)
            THEN [seen EXCEPT !.bestDiffs = Put(@, worker.worker, currentBest)]
            ELSE seen

RECURSIVE MergeWorkers(_, _, _)
MergeWorkers(cache, workers, t) ==
    IF workers = <<>> THEN cache
    ELSE MergeWorkers(MergeWorker(cache, Head(workers), t), Tail(workers), t)

AnyWorkerNamed(list) == \E i \in 1..Len(list) : list[i].worker # NoName

\* updateBestDiffs(workers, cache): the cache object after the call and the
\* file, written when at least one worker had a name.
UpdateBestDiffs(file, workers, cache, t) ==
    LET merged == MergeWorkers(cache, workers, t)
    IN [cache |-> merged, file |-> IF AnyWorkerNamed(workers) THEN SaveCache(merged) ELSE file]

\* A ckpool worker file, by the two figures the patterns of
\* readBestDiffFromCkpoolFile find in it (0 for a figure it does not have).
NoWorkerFile == [exists |-> FALSE, bestever |-> 0, bestshare |-> 0]

WorkerFile(e, s) == [exists |-> TRUE, bestever |-> e, bestshare |-> s]

\* A read that looks at the file's bestever only.
ReadBesteverOnly(wf) == IF wf.exists THEN wf.bestever ELSE 0

ReadBestDiffFromCkpoolFile(wf) == IF wf.exists THEN Max2(wf.bestever, wf.bestshare) ELSE 0

\* getBestDiffFromAllSources(fullName, currentBest, cache): the value it
\* returns and the cache object after the call; nothing is written.
\* A merge that leaves the cached value out of the comparison.
GetBestDiffIgnoringCache(fullName, currentBest, cache, wf) ==
    LET maxBest == Max3(0, currentBest, ReadBestDiffFromCkpoolFile(wf))
    IN [best |-> maxBest,
        cache |-> IF maxBest > 0 THEN [cache EXCEPT !.bestDiffs = Put(@, fullName, maxBest)] ELSE cache]

GetBestDiffFromAllSources(fullName, currentBest, cache, wf) ==
    LET cachedBest == GetOr(cache.bestDiffs, fullName, 0)
        fileBest == ReadBestDiffFromCkpoolFile(wf)
        maxBest == Max3(cachedBest, currentBest, fileBest)
    IN [best |-> maxBest,
        cache |-> IF maxBest > cachedBest
                  THEN [cache EXCEPT !.bestDiffs = Put(@, fullName, maxBest)]
                  ELSE cache]

Without(m, gone) == [k \in (DOMAIN m) \ gone |-> m[k]]

\* The test that also takes an entry last seen exactly at the cutoff.
ExpiredInclusive(lastSeen, cutoff) == lastSeen > 0 /\ lastSeen <= cutoff

\* The test that takes a missing lastSeenAt for an old one.
ExpiredOrUnknown(lastSeen, cutoff) == lastSeen < cutoff

\* lastSeen > 0 && lastSeen < cutoff
Expired(lastSeen, cutoff) == lastSeen > 0 /\ lastSeen < cutoff

\* A prune that counts the expired entries and deletes nothing.
PruneCountOnly(file, t, maxAgeDays) ==
    LET cache == LoadCache(file)
        cutoff == t - maxAgeDays * SecondsPerDay
    IN [pruned |-> Cardinality({name \in DOMAIN cache.bestDiffs :
                                   Expired(GetOr(cache.lastSeenAt, name, 0), cutoff)}),
        file |-> file]

\* pruneInactiveWorkers(maxAgeDays) at clock t: the number it returns and the
\* file it leaves, written when something was removed.
PruneInactiveWorkers(file, t, maxAgeDays) ==
    LET cache == LoadCache(file)
        cutoff == t - maxAgeDays * SecondsPerDay
        gone == {name \in DOMAIN cache.bestDiffs :
                    Expired(GetOr(cache.lastSeenAt, name, 0), cutoff)}
        pruned == Cardinality(gone)
        after == [cache EXCEPT !.bestDiffs = Without(@, gone),
                               !.workers = Without(@, gone),
                               !.lastSeenAt = Without(@, gone)]
    IN [pruned |-> pruned, file |-> IF pruned > 0 THEN SaveCache(after) ELSE file]

(***************************************************************************)
(* What the daemon and the ckpool log directory hold is not constrained:   *)
(* each handler draws its replies and files when it resumes.               *)
(***************************************************************************)
Worker(name, e, s, d) == [worker |-> name, bestever |-> e, bestshare |-> s, bestdiff |-> d]

Client(name, ua, e, s, d) ==
    [workername |-> name, useragent |-> ua, bestever |-> e, bestshare |-> s, bestdiff |-> d]

\* Worker records of a daemon reply as the handlers meet them.
ReportedWorkers == {Worker(n, b, 0, 0) : n \in WorkerNames, b \in Diffs} \cup {Worker(NoName, 0, 0, 0)}

\* Connected clients as updateFromClients meets them.
ConnectedClients == {Client(n, ua, 0, 0, 0) : n \in WorkerNames, ua \in UserAgents}
                        \cup {Client(NoName, "", 0, 0, 0)}

\* Connected clients of one address as the stats page meets them.
AddressClients == {Client(n, "", b, 0, 0) : n \in WorkerNames, b \in Diffs}

WorkerFiles == {NoWorkerFile} \cup {WorkerFile(b, 0) : b \in 1..MaxDiff}

UpTo1(S) == {<<>>} \cup {<<x>> : x \in S}

\* What an awaited daemon command gave: its reply, or nothing usable (the
\* command failed, or answered without the expected content).
Reply(data) == [ok |-> TRUE, data |-> data]

Failed(data) == [ok |-> FALSE, data |-> data]

\* What each handler finds when it resumes; what a handler that returns
\* early never reads is left out.
LeaderboardInputs ==
    {[workersData |-> Reply(l), clients |-> c] : l \in UpTo1(ReportedWorkers), c \in UpTo1(ConnectedClients)}
        \cup {[workersData |-> Failed(<<>>), clients |-> <<>>]}

StatsPageInputs ==
    {[userFound |-> TRUE, clients |-> c, wf |-> wf] : c \in UpTo1(AddressClients), wf \in WorkerFiles}
        \cup {[userFound |-> FALSE, clients |-> <<>>, wf |-> NoWorkerFile]}

WorkerPageInputs ==
    {[workerStats |-> Reply(Worker(<<Address, Rig>>, b, 0, 0)), wf |-> wf] : b \in Diffs, wf \in WorkerFiles}
        \cup {[workerStats |-> Failed(Worker(NoName, 0, 0, 0)), wf |-> NoWorkerFile]}

Routes == {"leaderboard", "stats", "worker"}

\* The last operation on the cache: for a prune, its retention, the number it
\* returned and, when the operation before it was a prune with the same
\* retention at the same clock, the number that one returned (else -1).
NoEv == [op |-> "none", maxAge |-> 0, ret |-> 0, first |-> -1]

InitCache ==
    /\ disk = NoFile
    /\ now = StartTime
    /\ awaiting = {}
    /\ ev = NoEv

\* A request arrives: the handler sends its daemon commands and awaits them.
StartRequest(route) ==
    /\ route \notin awaiting
    /\ awaiting' = awaiting \cup {route}
    /\ ev' = NoEv
    /\ UNCHANGED <<disk, now, notCache>>

\* GET /api/leaderboard after its await (routes/api.js): updateFromClients,
\* updateBestDiffs, then getBestDiffFromAllSources per worker on the cache
\* object, which is not written again.
LeaderboardFile(workersData, clients, t, file) ==
    IF ~workersData.ok THEN file
    ELSE LET touched == UpdateFromClients(file, clients, t)
         IN UpdateBestDiffs(touched.file, workersData.data, touched.cache, t).file

Leaderboard(workersData, clients) ==
    /\ "leaderboard" \in awaiting
    /\ awaiting' = awaiting \ {"leaderboard"}
    /\ disk' = LeaderboardFile(workersData, clients, now, disk)
    /\ ev' = NoEv
    /\ UNCHANGED <<now, notCache>>

\* parseClientInfo: bestever || bestshare || bestdiff || 0
FirstTruthy3(a, b, c) == IF a # 0 THEN a ELSE IF b # 0 THEN b ELSE c

ParseClientInfo(client) ==
    [workername |-> IF client.workername = NoName THEN <<"default">> ELSE client.workername,
     useragent |-> client.useragent,
     bestdiff |-> FirstTruthy3(client.bestever, client.bestshare, client.bestdiff)]

\* client.workername.split('.').pop(), then address.suffix
FullWorkerName(address, workername) ==
    LET workerSuffix == workername[Len(workername)]
    IN IF workerSuffix = "" THEN <<address>> ELSE <<address, workerSuffix>>

RECURSIVE MergeClients(_, _, _, _)
MergeClients(cache, address, clients, wf) ==
    IF clients = <<>> THEN cache
    ELSE LET client == ParseClientInfo(Head(clients))
             fullWorkerName == FullWorkerName(address, client.workername)
         IN MergeClients(GetBestDiffFromAllSources(fullWorkerName, client.bestdiff, cache, wf).cache,
                         address, Tail(clients), wf)

\* GET /stats/:address after its awaits (routes/index.js): loadCache, one
\* getBestDiffFromAllSources per client, one saveCache.
StatsPageFile(address, userFound, clients, wf, file) ==
    IF ~userFound THEN file
    ELSE SaveCache(MergeClients(LoadCache(file), address, clients, wf))

StatsPage(userFound, clients, wf) ==
    /\ "stats" \in awaiting
    /\ awaiting' = awaiting \ {"stats"}
    /\ disk' = StatsPageFile(Address, userFound, clients, wf, disk)
    /\ ev' = NoEv
    /\ UNCHANGED <<now, notCache>>

\* GET /stats/:address/:worker after its await (routes/index.js): loadCache,
\* getBestDiffFromAllSources for address.worker, saveCache.
WorkerPageFile(address, worker, workerStats, wf, file) ==
    IF ~workerStats.ok THEN file
    ELSE SaveCache(GetBestDiffFromAllSources(<<address, worker>>, CurrentBest(workerStats.data),
                                             LoadCache(file), wf).cache)

WorkerPage(workerStats, wf) ==
    /\ "worker" \in awaiting
    /\ awaiting' = awaiting \ {"worker"}
    /\ disk' = WorkerPageFile(Address, Rig, workerStats, wf, disk)
    /\ ev' = NoEv
    /\ UNCHANGED <<now, notCache>>

\* The sweeper's timer fires (server.js): pruneInactiveWorkers() with the
\* default retention.
Sweep ==
    /\ LET r == PruneInactiveWorkers(disk, now, DefaultMaxAgeDays)
       IN /\ disk' = r.file
          /\ ev' = [op |-> "prune", maxAge |-> DefaultMaxAgeDays, ret |-> r.pruned, first |-> -1]
    /\ UNCHANGED <<now, awaiting, notCache>>

Tick ==
    /\ now < StartTime + MaxPeriods * Period
    /\ now' = now + Period
    /\ ev' = NoEv
    /\ UNCHANGED <<disk, awaiting, notCache>>

Next ==
    \/ \E route \in Routes : StartRequest(route)
    \/ \E in \in LeaderboardInputs : Leaderboard(in.workersData, in.clients)
    \/ \E in \in StatsPageInputs : StatsPage(in.userFound, in.clients, in.wf)
    \/ \E in \in WorkerPageInputs : WorkerPage(in.workerStats, in.wf)
    \/ Sweep
    \/ Tick

(***************************************************************************)
(* The cache module's functions called one at a time, with any retention   *)
(* for the prune.                                                          *)
(***************************************************************************)
\* ret counts the named clients of the call that came without a user agent.
CallUpdateFromClients(clients) ==
    /\ disk' = UpdateFromClients(disk, clients, now).file
    /\ ev' = [op |-> "updateFromClients", maxAge |-> 0, first |-> -1,
              ret |-> Cardinality({i \in DOMAIN clients :
                                      clients[i].workername # NoName /\ clients[i].useragent = ""})]
    /\ UNCHANGED <<now, awaiting, notCache>>

\* updateBestDiffs(workers): without a cache argument it loads the file.
CallUpdateBestDiffs(workers) ==
    /\ disk' = UpdateBestDiffs(disk, workers, LoadCache(disk), now).file
    /\ ev' = NoEv
    /\ UNCHANGED <<now, awaiting, notCache>>

\* loadCache, getBestDiffFromAllSources, saveCache, as the two pages do.
CallMergeAndSave(fullName, currentBest, wf) ==
    /\ disk' = SaveCache(GetBestDiffFromAllSources(fullName, currentBest, LoadCache(disk), wf).cache)
    /\ ev' = NoEv
    /\ UNCHANGED <<now, awaiting, notCache>>

CallPruneInactiveWorkers(maxAgeDays) ==
    /\ LET r == PruneInactiveWorkers(disk, now, maxAgeDays)
       IN /\ disk' = r.file
          /\ ev' = [op |-> "prune", maxAge |-> maxAgeDays, ret |-> r.pruned,
                    first |-> IF ev.op = "prune" /\ ev.maxAge = maxAgeDays THEN ev.ret ELSE -1]
    /\ UNCHANGED <<now, awaiting, notCache>>

\* Keys the two pages build.
PageNames == {<<Address, Rig>>, <<Address, Address>>}

NextPrune ==
    \/ \E clients \in UpTo1(ConnectedClients) : CallUpdateFromClients(clients)
    \/ \E workers \in UpTo1(ReportedWorkers) : CallUpdateBestDiffs(workers)
    \/ \E fullName \in PageNames, currentBest \in Diffs, wf \in WorkerFiles :
          CallMergeAndSave(fullName, currentBest, wf)
    \/ \E maxAgeDays \in MaxAgeChoices : CallPruneInactiveWorkers(maxAgeDays)
    \/ Tick

(***************************************************************************)
(* Merge calls on one cache object, in any order.                          *)
(***************************************************************************)
\* Every figure a daemon record or a ckpool file may carry.
AnyWorkers ==
    {Worker(n, e, s, d) : n \in WorkerNames, e \in Diffs, s \in Diffs, d \in Diffs}
        \cup {Worker(NoName, 0, 0, 0)}

AnyWorkerFiles == {NoWorkerFile} \cup {WorkerFile(e, s) : e \in Diffs, s \in Diffs}

NothingPassed == [seen |-> {}, last |-> 0]

\* The candidates passed for each identity so far, and the highest of the last call's.
Pass1(p, name, values) ==
    IF name \in DOMAIN p
    THEN [p EXCEPT ![name] = [seen |-> @.seen \cup values,
                              last |-> CHOOSE v \in values : \A w \in values : v >= w]]
    ELSE p

RECURSIVE PassAll(_, _)
PassAll(p, workers) ==
    IF workers = <<>> THEN p
    ELSE LET w == Head(workers)
         IN PassAll(Pass1(p, w.worker, {w.bestever, w.bestshare, w.bestdiff}), Tail(workers))

MergeUpdateBestDiffs(workers) ==
    /\ LET r == UpdateBestDiffs(disk, workers, mem, now)
       IN /\ mem' = r.cache
          /\ disk' = r.file
    /\ passed' = PassAll(passed, workers)
    /\ UNCHANGED notMerge

MergeGetBestDiffFromAllSources(fullName, currentBest, wf) ==
    /\ mem' = GetBestDiffFromAllSources(fullName, currentBest, mem, wf).cache
    /\ passed' = Pass1(passed, fullName, {currentBest, wf.bestever, wf.bestshare})
    /\ UNCHANGED <<disk, notMerge>>

NextMerge ==
    \/ \E workers \in UpTo1(AnyWorkers) : MergeUpdateBestDiffs(workers)
    \/ \E fullName \in WorkerNames, currentBest \in Diffs, wf \in AnyWorkerFiles :
          MergeGetBestDiffFromAllSources(fullName, currentBest, wf)


InitMerge ==
    /\ mem = EmptyCache
    /\ passed = [n \in WorkerNames |-> NothingPassed]

(***************************************************************************)
(* Functions applied to inputs of their domain.                            *)
(***************************************************************************)
NoCall == [fn |-> "none"]

InitCall == call = NoCall

\* A cache object that holds storedBest for fullName (nothing when it is 0).
CacheWith(fullName, storedBest) ==
    IF storedBest = 0 THEN EmptyCache
    ELSE [EmptyCache EXCEPT !.bestDiffs = Put(@, fullName, storedBest)]

CallGetBestDiffFromAllSources(fullName, storedBest, currentBest, wf) ==
    /\ LET cache == CacheWith(fullName, storedBest)
           r == GetBestDiffFromAllSources(fullName, currentBest, cache, wf)
       IN call' = [fn |-> "getBestDiffFromAllSources", fullName |-> fullName,
                   before |-> cache, currentBest |-> currentBest, wf |-> wf,
                   best |-> r.best, after |-> r.cache]
    /\ UNCHANGED notCall

(***************************************************************************)
(* GET /api/pool and its snapshot (routes/api.js)                          *)
(***************************************************************************)
POOL_CACHE_TTL == 10000

\* The clock of the route advances by half the time to live, MaxPoolTicks times.
MaxPoolTicks == 4

\* What getPoolStats can return: three replies, or poolstats null after its
\* inner catch, or three nulls after its outer catch.
PoolStatsResults ==
    {[poolstats |-> p, stratifier |-> s, connector |-> c] :
        p \in Replies \cup {Null}, s \in Replies, c \in Replies}
        \cup {[poolstats |-> Null, stratifier |-> Null, connector |-> Null]}

\* The count a reply carries (users, users.count, clients.count).
CountIn(reply) == IF reply = "replyA" THEN 1 ELSE 2

\* parsePoolStats: users from poolstats, else from stratifierstats, else 0;
\* connections from connectorstats, else 0.
ParsePoolStats(p, s, c) ==
    [users |-> IF p # Null THEN CountIn(p) ELSE IF s # Null THEN CountIn(s) ELSE 0,
     connections |-> IF c # Null THEN CountIn(c) ELSE 0]

\* let poolCache = { data: null, timestamp: 0 }
NoSnapshot ==
    [has |-> FALSE, timestamp |-> 0,
     data |-> [parsed |-> ParsePoolStats(Null, Null, Null),
               raw |-> [poolstats |-> Null, stratifier |-> Null, connector |-> Null],
               timestamp |-> 0]]

InitRoute ==
    /\ poolCache = NoSnapshot
    /\ ptime = 0

\* router.get('/pool'): getPoolStats never rejects, so the handler's catch
\* is not entered on a daemon failure; it gets three nulls instead.
GetPool(poolStats) ==
    /\ IF poolCache.has /\ ptime - poolCache.timestamp < POOL_CACHE_TTL
       THEN /\ call' = [fn |-> "GET /pool", asked |-> FALSE, raw |-> poolCache.data.raw,
                        status |-> 200, success |-> TRUE, data |-> poolCache.data,
                        cached |-> TRUE, stale |-> FALSE, before |-> poolCache]
            /\ UNCHANGED poolCache
       ELSE LET data == [parsed |-> ParsePoolStats(poolStats.poolstats, poolStats.stratifier,
                                                   poolStats.connector),
                         raw |-> poolStats, timestamp |-> ptime]
            IN  /\ poolCache' = [has |-> TRUE, data |-> data, timestamp |-> ptime]
                /\ call' = [fn |-> "GET /pool", asked |-> TRUE, raw |-> poolStats,
                            status |-> 200, success |-> TRUE, data |-> data,
                            cached |-> FALSE, stale |-> FALSE, before |-> poolCache]
    /\ UNCHANGED <<ptime, rateVars, frameVars, poolVars, cacheVars, mergeVars, timerVars>>

TickPool ==
    /\ ptime < MaxPoolTicks * (POOL_CACHE_TTL \div 2)
    /\ ptime' = ptime + POOL_CACHE_TTL \div 2
    /\ UNCHANGED <<poolCache, call, rateVars, frameVars, poolVars, cacheVars, mergeVars, timerVars>>

NextRoute ==
    \/ \E poolStats \in PoolStatsResults : GetPool(poolStats)
    \/ TickPool

(***************************************************************************)
(* The three handlers that merge, one request at a time: what the request  *)
(* leaves in the file, the cache object it ends with, and its merge.       *)
(***************************************************************************)
\* The file a named worker's figures are read from; without a name the path
\* is the users directory and the read fails, which counts 0.
FileOf(fullName, wf) == IF fullName = NoName THEN NoWorkerFile ELSE wf

RECURSIVE RankWorkers(_, _, _)
RankWorkers(cache, workers, wf) ==
    IF workers = <<>> THEN cache
    ELSE LET fullName == Head(workers).worker
         IN RankWorkers(GetBestDiffFromAllSources(fullName, CurrentBest(Head(workers)), cache,
                                                  FileOf(fullName, wf)).cache,
                        Tail(workers), wf)

\* The cache object of GET /api/leaderboard after updateBestDiffs.
LeaderboardMerged(workersData, clients, t, file) ==
    LET touched == UpdateFromClients(file, clients, t)
    IN UpdateBestDiffs(touched.file, workersData.data, touched.cache, t).cache

\* saveCache calls of one leaderboard request.
LeaderboardWrites(workersData, clients) ==
    IF ~workersData.ok THEN 0
    ELSE (IF AnyNamed(clients) THEN 1 ELSE 0) + (IF AnyWorkerNamed(workersData.data) THEN 1 ELSE 0)

\* One getBestDiffFromAllSources of a request, as the request saw it.
Merge(merged, fullName, currentBest, wf, cache) ==
    [merged |-> merged, fullName |-> fullName, currentBest |-> currentBest,
     stored |-> GetOr(cache.bestDiffs, fullName, 0),
     fileBest |-> ReadBestDiffFromCkpoolFile(wf),
     best |-> GetBestDiffFromAllSources(fullName, currentBest, cache, wf).best]

NoMerge == Merge(FALSE, NoName, 0, NoWorkerFile, EmptyCache)

\* What a request did: its saveCache calls, its merge, and whether the file
\* reads the same after it as before.
Served(route, writes, merge, before, after) ==
    [fn |-> route, writes |-> writes, merge |-> merge, same |-> LoadCache(before) = LoadCache(after)]

ServeLeaderboard(workersData, clients, wf) ==
    /\ disk' = LeaderboardFile(workersData, clients, now, disk)
    /\ LET cache == LeaderboardMerged(workersData, clients, now, disk)
           workers == workersData.data
       IN /\ mem' = IF workersData.ok THEN RankWorkers(cache, workers, wf) ELSE EmptyCache
          /\ call' = Served("leaderboard", LeaderboardWrites(workersData, clients),
                            IF workersData.ok /\ workers # <<>>
                            THEN Merge(TRUE, workers[1].worker, CurrentBest(workers[1]),
                                       FileOf(workers[1].worker, wf), cache)
                            ELSE NoMerge,
                            disk, LeaderboardFile(workersData, clients, now, disk))
    /\ UNCHANGED <<now, awaiting, ev, passed>>
    /\ UNCHANGED <<rateVars, frameVars, poolVars, routeVars, timerVars>>

ServeStatsPage(userFound, clients, wf) ==
    /\ disk' = StatsPageFile(Address, userFound, clients, wf, disk)
    /\ mem' = IF userFound THEN MergeClients(LoadCache(disk), Address, clients, wf) ELSE EmptyCache
    /\ call' = Served("stats", IF userFound THEN 1 ELSE 0,
                      IF userFound /\ clients # <<>>
                      THEN Merge(TRUE, FullWorkerName(Address, ParseClientInfo(clients[1]).workername),
                                 ParseClientInfo(clients[1]).bestdiff, wf, LoadCache(disk))
                      ELSE NoMerge,
                      disk, StatsPageFile(Address, userFound, clients, wf, disk))
    /\ UNCHANGED <<now, awaiting, ev, passed>>
    /\ UNCHANGED <<rateVars, frameVars, poolVars, routeVars, timerVars>>

ServeWorkerPage(workerStats, wf) ==
    /\ disk' = WorkerPageFile(Address, Rig, workerStats, wf, disk)
    /\ mem' = IF workerStats.ok
              THEN GetBestDiffFromAllSources(<<Address, Rig>>, CurrentBest(workerStats.data),
                                             LoadCache(disk), wf).cache
              ELSE EmptyCache
    /\ call' = Served("worker", IF workerStats.ok THEN 1 ELSE 0,
                      IF workerStats.ok
                      THEN Merge(TRUE, <<Address, Rig>>, CurrentBest(workerStats.data), wf, LoadCache(disk))
                      ELSE NoMerge,
                      disk, WorkerPageFile(Address, Rig, workerStats, wf, disk))
    /\ UNCHANGED <<now, awaiting, ev, passed>>
    /\ UNCHANGED <<rateVars, frameVars, poolVars, routeVars, timerVars>>

\* The worker page when the read of an existing cache file fails
\* (readFileSync or JSON.parse throws): loadCache's catch hands out the empty
\* cache, the merge runs on it and saveCache writes it over the file.
ServeWorkerPageLoadFails(workerStats, wf) ==
    /\ disk.exists
    /\ workerStats.ok
    /\ disk' = WorkerPageFile(Address, Rig, workerStats, wf, NoFile)
    /\ mem' = GetBestDiffFromAllSources(<<Address, Rig>>, CurrentBest(workerStats.data),
                                        LoadCache(NoFile), wf).cache
    /\ call' = Served("worker, load failed", 1,
                      Merge(TRUE, <<Address, Rig>>, CurrentBest(workerStats.data), wf, LoadCache(NoFile)),
                      disk, WorkerPageFile(Address, Rig, workerStats, wf, NoFile))
    /\ UNCHANGED <<now, awaiting, ev, passed>>
    /\ UNCHANGED <<rateVars, frameVars, poolVars, routeVars, timerVars>>

\* Leaderboard requests with at most the one rig connected.
RigLeaderboardInputs ==
    {in \in LeaderboardInputs : in.clients \in UpTo1({Client(<<Address, Rig>>, "bitaxe/2.1", 0, 0, 0)})}

NextServe ==
    \/ \E in \in RigLeaderboardInputs, wf \in WorkerFiles : ServeLeaderboard(in.workersData, in.clients, wf)
    \/ \E in \in StatsPageInputs : ServeStatsPage(in.userFound, in.clients, in.wf)
    \/ \E in \in WorkerPageInputs : ServeWorkerPage(in.workerStats, in.wf)

(***************************************************************************)
(* loadCache on a persisted document that has only some of the top-level   *)
(* keys, and the operations that follow on the object it returns. A key    *)
(* the object lacks reads as undefined; indexing undefined throws.         *)
(***************************************************************************)
TopLevelKeys == {"workers", "users", "bestDiffs", "lastSeenAt"}

\* What the keys a document has hold.
DocumentCaches ==
    {EmptyCache,
     [workers |-> Put(EmptyMap, <<Address, Rig>>, "Bitaxe"),
      users |-> Put(EmptyMap, Address, "Bitaxe"),
      bestDiffs |-> Put(EmptyMap, <<Address, Rig>>, 1),
      lastSeenAt |-> Put(EmptyMap, <<Address, Rig>>, StartTime)]}

\* loadCache on a document with these keys: bestDiffs and lastSeenAt are
\* added when missing, nothing else is.
LoadDocument(keys, cache) ==
    [keys |-> keys \cup {"bestDiffs", "lastSeenAt"},
     cache |-> [k \in TopLevelKeys |-> IF k \in keys THEN cache[k] ELSE EmptyMap]]

\* updateFromClients' forEach throws a TypeError on this client.
TouchClientThrows(loaded, client) ==
    IF client.workername = NoName THEN FALSE
    ELSE IF "lastSeenAt" \notin loaded.keys THEN TRUE
    ELSE IF client.useragent = "" THEN FALSE
    ELSE IF "workers" \notin loaded.keys THEN TRUE
    ELSE UserOf(client.workername) # "" /\ "users" \notin loaded.keys

\* updateBestDiffs' forEach throws on this worker.
MergeWorkerThrows(loaded, worker) ==
    IF worker.worker = NoName THEN FALSE
    ELSE IF "lastSeenAt" \notin loaded.keys THEN TRUE
    ELSE CurrentBest(worker) > 0 /\ "bestDiffs" \notin loaded.keys

GetMinerTypeThrows(loaded, fullName) ==
    IF "workers" \notin loaded.keys THEN TRUE
    ELSE IF Has(loaded.cache.workers, fullName) THEN FALSE
    ELSE UserOf(fullName) # "" /\ "users" \notin loaded.keys

\* pruneInactiveWorkers throws: delete cache.workers[name] is the second
\* statement for an expired entry.
PruneThrows(loaded, t, maxAgeDays) ==
    IF "bestDiffs" \notin loaded.keys THEN TRUE
    ELSE \E name \in DOMAIN loaded.cache.bestDiffs :
            IF "lastSeenAt" \notin loaded.keys THEN TRUE
            ELSE /\ Expired(GetOr(loaded.cache.lastSeenAt, name, 0), t - maxAgeDays * SecondsPerDay)
                 /\ "workers" \notin loaded.keys

\* The operations as the leaderboard and the sweeper call them, the miner
\* type being looked up under the worker's name.
CallOnDocument(keys, cache, client, worker, t) ==
    /\ LET loaded == LoadDocument(keys, cache)
       IN call' = [fn |-> "loadCache", document |-> keys, loaded |-> loaded,
                   throws |-> [updateFromClients |-> TouchClientThrows(loaded, client),
                               updateBestDiffs |-> MergeWorkerThrows(loaded, worker),
                               getMinerType |-> GetMinerTypeThrows(loaded, worker.worker),
                               prune |-> PruneThrows(loaded, t, DefaultMaxAgeDays)]]
    /\ UNCHANGED notCall

(***************************************************************************)
(* The normalizer (stats-parser.js) on one raw daemon response. A response *)
(* is a JSON object, or the text sendCommand hands over when the reply did *)
(* not parse; reading a field of a text gives undefined. A field that is   *)
(* absent reads like 0, false or "".                                       *)
(***************************************************************************)
IdleThreshold == 300

\* Date.now() / 1000 at the call.
ParseNow == 2 * IdleThreshold

RawObject(e, s, d, b, lastshare, reportsIdle, error) ==
    [kind |-> "object", error |-> error, bestever |-> e, bestshare |-> s, bestdiff |-> d,
     best_diff |-> b, lastshare |-> lastshare, idle |-> reportsIdle]

\* "empty": null, undefined or ''; "unknown": the text 'unknown';
\* "error text": a text that includes 'error'; "text": any other text.
RawText(kind) ==
    [kind |-> kind, error |-> "", bestever |-> 0, bestshare |-> 0, bestdiff |-> 0,
     best_diff |-> 0, lastshare |-> 0, idle |-> FALSE]

LastShares == {0, ParseNow - IdleThreshold - 1, ParseNow - IdleThreshold, ParseNow - 1}

RawResponses ==
    {RawObject(e, s, d, b, 0, FALSE, "") : e \in Diffs, s \in Diffs, d \in Diffs, b \in Diffs}
        \cup {RawObject(0, 0, 0, 0, l, i, "") : l \in LastShares, i \in BOOLEAN}
        \cup {RawObject(1, 0, 0, 0, ParseNow - 1, FALSE, "unknown")}
        \cup {RawText(k) : k \in {"empty", "unknown", "error text", "text"}}

\* a || b || c || d || 0
FirstTruthy4(a, b, c, d) == IF a # 0 THEN a ELSE FirstTruthy3(b, c, d)

\* return null
Absent == [null |-> TRUE, bestDiff |-> 0, lastShare |-> 0, isIdle |-> FALSE]

\* A parser that gives a record of zeros for an error response.
ParseUserStatsZeroOnError(raw, t) ==
    IF raw.kind = "empty" THEN Absent
    ELSE [null |-> FALSE,
          bestDiff |-> IF raw.error # "" THEN 0
                       ELSE FirstTruthy4(raw.bestever, raw.bestshare, raw.bestdiff, raw.best_diff),
          lastShare |-> raw.lastshare,
          isIdle |-> raw.lastshare > 0 /\ t - raw.lastshare > IdleThreshold]

ParseUserStats(raw, t) ==
    IF raw.kind = "empty" THEN Absent
    ELSE IF raw.error # "" \/ raw.kind = "unknown" \/ raw.kind = "error text" THEN Absent
    ELSE [null |-> FALSE,
          bestDiff |-> FirstTruthy4(raw.bestever, raw.bestshare, raw.bestdiff, raw.best_diff),
          lastShare |-> raw.lastshare,
          isIdle |-> raw.lastshare > 0 /\ t - raw.lastshare > IdleThreshold]

ParseWorkerStats(raw) ==
    IF raw.kind = "empty" THEN Absent
    ELSE IF raw.error # "" \/ raw.kind = "unknown" THEN Absent
    ELSE [null |-> FALSE,
          bestDiff |-> FirstTruthy4(raw.bestever, raw.bestshare, raw.bestdiff, raw.best_diff),
          lastShare |-> raw.lastshare,
          isIdle |-> raw.idle]

\* The worker page's isIdle: clientInfo?.idle || (lastshare > 0 && now - lastshare > 300)
WorkerPageIsIdle(clientIdle, lastshare, t) ==
    IF clientIdle THEN TRUE ELSE lastshare > 0 /\ t - lastshare > IdleThreshold

CallParseUserStats(raw) ==
    /\ call' = [fn |-> "parseUserStats", raw |-> raw, out |-> ParseUserStats(raw, ParseNow)]
    /\ UNCHANGED notCall

CallParseWorkerStats(raw) ==
    /\ call' = [fn |-> "parseWorkerStats", raw |-> raw, out |-> ParseWorkerStats(raw)]
    /\ UNCHANGED notCall

\* parseClientInfo on a list of one client.
CallParseClientInfo(client) ==
    /\ call' = [fn |-> "parseClientInfo",
                raw |-> RawObject(client.bestever, client.bestshare, client.bestdiff, 0, 0, FALSE, ""),
                out |-> [null |-> FALSE, bestDiff |-> ParseClientInfo(client).bestdiff,
                         lastShare |-> 0, isIdle |-> FALSE]]
    /\ UNCHANGED notCall

\* The worker page's isIdle for a worker record and its first client.
CallWorkerPageIsIdle(clientIdle, lastshare) ==
    /\ call' = [fn |-> "worker page",
                raw |-> RawObject(0, 0, 0, 0, lastshare, clientIdle, ""),
                out |-> [null |-> FALSE, bestDiff |-> 0, lastShare |-> lastshare,
                         isIdle |-> WorkerPageIsIdle(clientIdle, lastshare, ParseNow)]]
    /\ UNCHANGED notCall

(***************************************************************************)
(* Hashrates of parsePoolStats. A JavaScript number m * 2^e is the pair    *)
(* of m and e, m odd or the number 0; the product of two such numbers is   *)
(* exact as long as the mantissa fits, which it does here.                 *)
(***************************************************************************)
RECURSIVE Normal(_)
Normal(x) ==
    IF x.m = 0 THEN [m |-> 0, e |-> 0]
    ELSE IF x.m % 2 = 0 THEN Normal([m |-> x.m \div 2, e |-> x.e + 1])
    ELSE x

Times(x, y) == Normal([m |-> x.m * y.m, e |-> x.e + y.e])

Zero == [m |-> 0, e |-> 0]

\* 4294967296
NONCES_PER_SHARE == [m |-> 1, e |-> 32]

\* The dsps counter each horizon is derived from.
Horizons == {"hashrate1m", "hashrate5m", "hashrate15m", "hashrate1h", "hashrate6h", "hashrate1d", "hashrate7d"}

CounterOf(h) ==
    CASE h = "hashrate1m" -> "dsps1"
      [] h = "hashrate5m" -> "dsps5"
      [] h = "hashrate15m" -> "dsps15"
      [] h = "hashrate1h" -> "dsps60"
      [] h = "hashrate6h" -> "dsps360"
      [] h = "hashrate1d" -> "dsps1440"
      [] h = "hashrate7d" -> "dsps10080"

Counters == {CounterOf(h) : h \in Horizons}

\* 0 (also for a missing counter), 1, 2.5 and 3 shares per second.
DspsValues == {Zero, [m |-> 1, e |-> 0], [m |-> 5, e |-> -1], [m |-> 3, e |-> 0]}

\* poolstats replies: no reply, an error reply, and replies in which up to
\* two counters are set.
PoolstatsReplies ==
    {[null |-> TRUE, error |-> FALSE, dsps |-> [c \in Counters |-> Zero]],
     [null |-> FALSE, error |-> TRUE, dsps |-> [c \in Counters |-> Zero]]}
        \cup {[null |-> FALSE, error |-> FALSE,
                dsps |-> [[c \in Counters |-> Zero] EXCEPT ![c1] = v1, ![c2] = v2]] :
                  c1 \in Counters, c2 \in Counters, v1 \in DspsValues, v2 \in DspsValues}

\* Hashrates in which the 15 minute figure is taken from the 5 minute counter.
PoolHashratesFrom5m(reply) ==
    IF reply.null \/ reply.error
    THEN [h \in Horizons \cup {"hashrate"} |-> Zero]
    ELSE [h \in Horizons \cup {"hashrate"} |->
            IF h = "hashrate" THEN Times(reply.dsps["dsps1"], NONCES_PER_SHARE)
            ELSE IF h = "hashrate15m" THEN Times(reply.dsps["dsps5"], NONCES_PER_SHARE)
            ELSE Times(reply.dsps[CounterOf(h)], NONCES_PER_SHARE)]

\* The hashrate fields of parsePoolStats: zeros unless poolstats is there
\* and carries no error; hashrate is the 1 minute figure.
PoolHashrates(reply) ==
    IF reply.null \/ reply.error
    THEN [h \in Horizons \cup {"hashrate"} |-> Zero]
    ELSE [h \in Horizons \cup {"hashrate"} |->
            IF h = "hashrate" THEN Times(reply.dsps["dsps1"], NONCES_PER_SHARE)
            ELSE Times(reply.dsps[CounterOf(h)], NONCES_PER_SHARE)]

CallParsePoolStats(reply) ==
    /\ call' = [fn |-> "parsePoolStats", poolstats |-> reply, pool |-> PoolHashrates(reply)]
    /\ UNCHANGED notCall

NextParse ==
    \/ \E raw \in RawResponses : CallParseUserStats(raw)
    \/ \E raw \in RawResponses : CallParseWorkerStats(raw)
    \/ \E e \in Diffs, s \in Diffs, d \in Diffs : CallParseClientInfo(Client(<<Address, Rig>>, "", e, s, d))
    \/ \E clientIdle \in BOOLEAN, lastshare \in LastShares : CallWorkerPageIsIdle(clientIdle, lastshare)
    \/ \E reply \in PoolstatsReplies : CallParsePoolStats(reply)

(***************************************************************************)
(* The address check of the two /stats/:address routes (routes/api.js,     *)
(* routes/index.js), up to the first await. An address is its prefix, the  *)
(* length of what follows, and whether a character outside                 *)
(* [a-zA-HJ-NP-Z0-9] occurs in it.                                         *)
(***************************************************************************)
MinBody == 25

MaxBody == 62

Prefixes == {"1", "3", "bc1", "b", ""}

BodyLengths == {0, 1, MinBody - 1, MinBody, MinBody + 1, MaxBody - 1, MaxBody, MaxBody + 1}

Addresses == {[prefix |-> p, len |-> n, bad |-> b] : p \in Prefixes, n \in BodyLengths, b \in BOOLEAN}

\* A check that looks at the prefix and the characters only.
IsValidPrefixAndCharacters(address) ==
    address.prefix \in {"1", "3", "bc1"} /\ ~address.bad

\* address && /^(1|3|bc1)[a-zA-HJ-NP-Z0-9]{25,62}$/.test(address)
IsValidAddress(address) ==
    /\ address.prefix \in {"1", "3", "bc1"}
    /\ ~address.bad
    /\ address.len >= MinBody /\ address.len <= MaxBody

\* GET /api/stats/:address: 400 before anything else, else getuser is sent
\* and awaited (status 0: not answered yet).
StatsApiArrives(address) ==
    /\ call' = IF IsValidAddress(address)
               THEN [fn |-> "GET /api/stats/:address", address |-> address, status |-> 0,
                     error |-> "", commands |-> {"getuser"}, cacheOps |-> 0]
               ELSE [fn |-> "GET /api/stats/:address", address |-> address, status |-> 400,
                     error |-> "Invalid Bitcoin address", commands |-> {}, cacheOps |-> 0]
    /\ UNCHANGED notCall

\* GET /stats/:address: the stats page is rendered with the error (res.render
\* without res.status: 200), else getuser and ucinfo are sent and awaited.
StatsPageArrives(address) ==
    /\ call' = IF IsValidAddress(address)
               THEN [fn |-> "GET /stats/:address", address |-> address, status |-> 0,
                     error |-> "", commands |-> {"getuser", "ucinfo"}, cacheOps |-> 0]
               ELSE [fn |-> "GET /stats/:address", address |-> address, status |-> 200,
                     error |-> "Invalid Bitcoin address", commands |-> {}, cacheOps |-> 0]
    /\ UNCHANGED notCall

NextValidate ==
    \/ \E address \in Addresses : StatsApiArrives(address)
    \/ \E address \in Addresses : StatsPageArrives(address)

(***************************************************************************)
(* The cache file failing under loadCache and saveCache. readFails: one of *)
(* ensureDataDir, existsSync, readFileSync, JSON.parse throws inside       *)
(* loadCache; writeFails: ensureDataDir or writeFileSync throws inside     *)
(* saveCache, and the file is left as it was. A call gives a value or      *)
(* throws.                                                                 *)
(***************************************************************************)
Returned(v) == [threw |-> FALSE, value |-> v]

Thrown(v) == [threw |-> TRUE, value |-> v]

\* loadCache without its catch.
LoadCacheRethrows(file, readFails) ==
    IF readFails THEN Thrown(EmptyCache) ELSE Returned(LoadCache(file))

\* loadCache: the try block returns the file's cache; an exception in it is
\* logged by the catch and the default of line 127 is returned.
LoadCacheGuarded(file, readFails) ==
    LET body == IF readFails THEN Thrown(EmptyCache) ELSE Returned(LoadCache(file))
    IN IF body.threw THEN Returned(EmptyCache) ELSE body

\* saveCache: the file after the call; an exception is logged by the catch.
SaveCacheGuarded(file, cache, writeFails) ==
    LET body == IF writeFails THEN Thrown(file) ELSE Returned(SaveCache(cache))
    IN Returned(body.value)

\* What a caller of the two did: the faults it met, whether an exception
\* left loadCache or saveCache, whether loadCache handed out the empty
\* cache, whether saveCache was called, and whether the caller ran to its
\* end.
Faulted(fn, readFails, writeFails, loaded, saved, wrote) ==
    [fn |-> fn, readFails |-> readFails, writeFails |-> writeFails,
     loadThrew |-> loaded.threw, saveThrew |-> saved.threw,
     empty |-> loaded.value = EmptyCache, wrote |-> wrote,
     completed |-> ~loaded.threw /\ ~saved.threw]

\* The sweeper's timer callback (server.js): pruneInactiveWorkers() is not
\* inside a try, so an exception leaving loadCache or saveCache would end
\* the callback before its last statement.
SweepWithFaults(readFails, writeFails) ==
    LET loaded == LoadCacheGuarded(disk, readFails)
        r == PruneInactiveWorkers(SaveCache(loaded.value), now, DefaultMaxAgeDays)
        saved == IF loaded.threw \/ r.pruned = 0 THEN Returned(disk)
                 ELSE SaveCacheGuarded(disk, LoadCache(r.file), writeFails)
    IN /\ disk' = saved.value
       /\ call' = Faulted("sweep", readFails, writeFails, loaded, saved, ~loaded.threw /\ r.pruned > 0)
       /\ ev' = NoEv
       /\ UNCHANGED <<now, awaiting, mem, passed, rateVars, frameVars, poolVars, routeVars, timerVars>>

\* The worker page from its loadCache to its saveCache (index.js 196-204),
\* the daemon having answered; an exception would take it to the handler's
\* catch, which renders the failure page.
WorkerPageWithFaults(workerStats, wf, readFails, writeFails) ==
    LET loaded == LoadCacheGuarded(disk, readFails)
        merged == GetBestDiffFromAllSources(<<Address, Rig>>, CurrentBest(workerStats.data),
                                            loaded.value, wf).cache
        saved == IF loaded.threw THEN Returned(disk) ELSE SaveCacheGuarded(disk, merged, writeFails)
    IN /\ workerStats.ok
       /\ disk' = saved.value
       /\ call' = Faulted("worker page", readFails, writeFails, loaded, saved, ~loaded.threw)
       /\ ev' = NoEv
       /\ UNCHANGED <<now, awaiting, mem, passed, rateVars, frameVars, poolVars, routeVars, timerVars>>

NextDisk ==
    \/ \E b \in Diffs : CallUpdateBestDiffs(<<Worker(<<Address, Rig>>, b, 0, 0)>>)
    \/ \E readFails \in BOOLEAN, writeFails \in BOOLEAN : SweepWithFaults(readFails, writeFails)
    \/ \E in \in WorkerPageInputs, readFails \in BOOLEAN, writeFails \in BOOLEAN :
          WorkerPageWithFaults(in.workerStats, in.wf, readFails, writeFails)
    \/ Tick

(***************************************************************************)
(* The sweeper's timers (server.js): a timeout set when the process        *)
(* starts, whose callback prunes and installs an interval. Times are in    *)
(* milliseconds since the start; a timer fires when it is due.             *)
(***************************************************************************)
InitialDelay == 3600000

SweepPeriod == 86400000

\* Sweeps after the first that the clock leaves room for.
MaxSweeps == 2

HalfDelay == InitialDelay \div 2

InitTimer ==
    /\ uptime = 0
    /\ timer = [kind |-> "timeout", due |-> InitialDelay]
    /\ runs = <<>>

\* An interval that repeats after the initial delay.
RearmedAfterDelay(t, at) == [kind |-> "interval", due |-> at + InitialDelay]

\* The pending timer after the callback ran at time at: the timeout's
\* callback calls setInterval, an interval is armed again by the runtime.
Rearmed(t, at) == [kind |-> "interval", due |-> at + SweepPeriod]

\* The pending timer's callback: pruneInactiveWorkers() with the default
\* retention, then the interval.
SweeperFires ==
    /\ uptime = timer.due
    /\ LET r == PruneInactiveWorkers(disk, now, DefaultMaxAgeDays)
       IN /\ disk' = r.file
          /\ ev' = [op |-> "prune", maxAge |-> DefaultMaxAgeDays, ret |-> r.pruned, first |-> -1]
    /\ runs' = Append(runs, uptime)
    /\ timer' = Rearmed(timer, uptime)
    /\ UNCHANGED <<uptime, now, awaiting, notTimer>>

\* Half of the initial delay passes with no timer due.
HalfDelayPasses ==
    /\ uptime < InitialDelay + MaxSweeps * SweepPeriod
    /\ uptime < timer.due
    /\ uptime' = uptime + HalfDelay
    /\ now' = now + HalfDelay \div 1000
    /\ ev' = NoEv
    /\ UNCHANGED <<disk, awaiting, timer, runs, notTimer>>

\* A leaderboard refresh records the rig while the timers run.
RigReported(b) ==
    /\ disk' = UpdateBestDiffs(disk, <<Worker(<<Address, Rig>>, b, 0, 0)>>, LoadCache(disk), now).file
    /\ ev' = NoEv
    /\ UNCHANGED <<now, awaiting, timerVars, notTimer>>

NextTimer ==
    \/ SweeperFires
    \/ HalfDelayPasses
    \/ \E b \in 1..MaxDiff : RigReported(b)

(***************************************************************************)
(* Requests that merge several identities, and the files they write.       *)
(***************************************************************************)
UpTo2(S) == UpTo1(S) \cup {<<x, y>> : x \in S, y \in S}

\* A stats page that saves inside its forEach.
StatsPageSavesPerClient(cache, address, clients, wf) ==
    [i \in 1..Len(clients) |-> SaveCache(MergeClients(cache, address, SubSeq(clients, 1, i), wf))]

\* The files the stats page writes, in order: saveCache is called once,
\* after the forEach over the clients.
StatsPageSaves(cache, address, clients, wf) ==
    <<SaveCache(MergeClients(cache, address, clients, wf))>>

\* The files updateBestDiffs writes: one after its forEach, when a worker
\* had a name.
UpdateBestDiffsSaves(file, workers, cache, t) ==
    IF AnyWorkerNamed(workers) THEN <<SaveCache(MergeWorkers(cache, workers, t))>> ELSE <<>>

\* What a batch request did: the identities it was given, the saveCache
\* calls that followed its best-difficulty merges, all its saveCache calls,
\* the entries it added, and whether the last file written holds every
\* merge.
Batch(route, n, saves, total, before, merged) ==
    [fn |-> route, n |-> n, writes |-> Len(saves), total |-> total,
     added |-> Cardinality(DOMAIN merged.bestDiffs \ DOMAIN before.bestDiffs),
     whole |-> saves # <<>> /\ LoadCache(saves[Len(saves)]).bestDiffs = merged.bestDiffs]

BatchStatsPage(clients, wf) ==
    LET saves == StatsPageSaves(LoadCache(disk), Address, clients, wf)
    IN /\ disk' = IF saves = <<>> THEN disk ELSE saves[Len(saves)]
       /\ call' = Batch("stats page", Len(clients), saves, Len(saves), LoadCache(disk),
                        MergeClients(LoadCache(disk), Address, clients, wf))
       /\ ev' = NoEv
       /\ UNCHANGED <<now, awaiting, mem, passed, rateVars, frameVars, poolVars, routeVars, timerVars>>

BatchLeaderboard(workers, clients) ==
    LET touched == UpdateFromClients(disk, clients, now)
        saves == UpdateBestDiffsSaves(touched.file, workers, touched.cache, now)
    IN /\ disk' = LeaderboardFile(Reply(workers), clients, now, disk)
       /\ call' = Batch("leaderboard", Len(workers), saves, LeaderboardWrites(Reply(workers), clients),
                        LoadCache(disk), LeaderboardMerged(Reply(workers), clients, now, disk))
       /\ ev' = NoEv
       /\ UNCHANGED <<now, awaiting, mem, passed, rateVars, frameVars, poolVars, routeVars, timerVars>>

NextBatch ==
    \/ \E clients \in UpTo2(AddressClients), wf \in {NoWorkerFile, WorkerFile(1, 0)} :
          BatchStatsPage(clients, wf)
    \/ \E workers \in UpTo2(ReportedWorkers),
          clients \in UpTo1({Client(<<Address, Rig>>, "bitaxe/2.1", 0, 0, 0)}) :
            BatchLeaderboard(workers, clients)

NextFault ==
    \/ NextServe
    \/ \E in \in WorkerPageInputs : ServeWorkerPageLoadFails(in.workerStats, in.wf)

\* Miner types a cache may hold for a worker or an address; "" for none.
RecordedTypes == {"", "Bitaxe", "Antminer S19"}

\* getMinerType on a cache holding these types for the worker and for the address.
CallGetMinerType(fullName, workerType, userType) ==
    /\ LET cache == [EmptyCache EXCEPT
                        !.workers = IF workerType = "" THEN @ ELSE Put(@, fullName, workerType),
                        !.users = IF userType = "" THEN @ ELSE Put(@, Address, userType)]
       IN call' = [fn |-> "getMinerType", fullName |-> fullName, cache |-> cache,
                   type |-> GetMinerType(fullName, cache)]
    /\ UNCHANGED notCall

\* Worker names as the daemon reports them: the bare address, address.rig,
\* and a suffix that holds a dot.
DaemonNames == WorkerNames \cup {<<Address, Rig, "a">>}

\* One worker of the address, reported under name with best difficulty b,
\* merged into an empty cache at each call site: the keys under which the
\* stats page (MergeClients), updateBestDiffs (MergeWorkers) and the
\* leaderboard's ranking (RankWorkers) store it.
CallMergeKeys(name, b) ==
    /\ call' = [fn |-> "merge keys", name |-> name,
                page |-> DOMAIN MergeClients(EmptyCache, Address, <<Client(name, "", b, 0, 0)>>,
                                             NoWorkerFile).bestDiffs,
                update |-> DOMAIN MergeWorkers(EmptyCache, <<Worker(name, b, 0, 0)>>, now).bestDiffs,
                rank |-> DOMAIN RankWorkers(EmptyCache, <<Worker(name, b, 0, 0)>>, NoWorkerFile).bestDiffs]
    /\ UNCHANGED notCall

NextCall ==
    \/ \E fullName \in WorkerNames, storedBest \in Diffs, currentBest \in Diffs, wf \in AnyWorkerFiles :
          CallGetBestDiffFromAllSources(fullName, storedBest, currentBest, wf)
    \/ \E keys \in SUBSET TopLevelKeys, cache \in DocumentCaches, client \in ConnectedClients,
          worker \in ReportedWorkers :
            CallOnDocument(keys, cache, client, worker, StartTime + 2 * Period)
    \/ \E fullName \in WorkerNames \cup {NoName}, workerType \in RecordedTypes, userType \in RecordedTypes :
          CallGetMinerType(fullName, workerType, userType)
    \/ \E name \in DaemonNames, b \in 1..MaxDiff : CallMergeKeys(name, b)

InitAll == InitRate /\ InitFrame /\ InitPool /\ InitCache /\ InitMerge /\ InitCall /\ InitRoute /\ InitTimer

SpecCall == InitAll /\ [][NextCall]_vars

SpecRoute == InitAll /\ [][NextRoute]_vars

SpecFault == InitAll /\ [][NextFault]_vars

SpecParse == InitAll /\ [][NextParse]_vars

SpecValidate == InitAll /\ [][NextValidate]_vars

SpecDisk == InitAll /\ [][NextDisk]_vars

SpecTimer == InitAll /\ [][NextTimer]_vars

SpecSettle == InitAll /\ [][NextSettle]_vars

SpecBatch == InitAll /\ [][NextBatch]_vars

SpecClean == InitAll /\ [][NextClean]_vars

SpecGate == InitAll /\ [][NextGate]_vars

SpecServe == InitAll /\ [][NextServe]_vars

Spec == InitAll /\ [][Next]_vars

SpecPrune == InitAll /\ [][NextPrune]_vars

SpecMerge == InitAll /\ [][NextMerge]_vars

SpecRate == InitAll /\ [][NextRate]_vars

SpecFrame == InitAll /\ [][NextFrame]_vars

SpecPool == InitAll /\ [][NextPool]_vars

\* C4: for one client key, of the requests arriving within one window of the
\* first, the first RATE_LIMIT_MAX are allowed and the next one, the
\* (RATE_LIMIT_MAX+1)-th, is the only one rejected so far; the other keys'
\* requests do not enter the count.
C4_BurstRejectsOnlyLast ==
    \A ip \in ClientKeys :
        /\ rghost[ip].n <= RATE_LIMIT_MAX => rghost[ip].rejected = 0
        /\ rghost[ip].n = RATE_LIMIT_MAX + 1 =>
              rghost[ip].rejected = 1 /\ rghost[ip].last = TooMany

\* A burst of RATE_LIMIT_MAX + 1 requests has just been answered while the
\* other client has requests counted in its own window.
C4_Witness ==
    /\ rghost[BurstKey].n = RATE_LIMIT_MAX + 1
    /\ rghost[BurstKey].last = TooMany
    /\ \E ip \in ClientKeys \ {BurstKey} : rghost[ip].n >= 1

\* The whole reply has been read from the socket.
Delivered == fghost.out # <<>> /\ wire = <<>>

\* C3: however the reply (prefix, then payload) was split into reads, once all
\* of it has been read the call has resolved with the payload of the declared
\* length, JSON-decoded when it parses and as the raw string otherwise: the
\* value one read of the whole reply gives.
C3_SplitReadsGiveThePayload ==
    Delivered => outcome = Resolved(ParseOrRaw(Utf8ToString(fghost.payload)))

\* A two-byte JSON payload was delivered in three or more reads, the first of
\* them ending inside the length prefix.
C3_Witness ==
    /\ Delivered
    /\ fghost.reads >= 3
    /\ fghost.firstRead < 4
    /\ Len(fghost.payload) >= 2
    /\ outcome.kind = "resolved"
    /\ outcome.value.type = "object"

\* C10: a call that has been started and has not settled is at most
\* SOCKET_TIMEOUT old.
C10_SettlesWithinTimeout ==
    outcome = Pending => elapsed <= SOCKET_TIMEOUT

\* The field of the result that carries a command's reply.
Field(c) ==
    CASE c = "poolstats" -> "poolstats"
      [] c = "stratifierstats" -> "stratifier"
      [] c = "connectorstats" -> "connector"

\* C8: when getPoolStats returns with one command failed and the other two
\* succeeded, the failed command's field is null and the other two fields
\* carry the replies.
C8_OnlyFailedFieldDegraded ==
    (/\ gresult.returned
     /\ Cardinality({c \in Cmds : gresult.at[c].st = "rejected"}) = 1
     /\ Cardinality({c \in Cmds : gresult.at[c].st = "resolved"}) = 2)
    => \A c \in Cmds :
          gresult.value[Field(c)] =
              IF gresult.at[c].st = "resolved" THEN gresult.at[c].value ELSE Null

\* C9 as stated: while getPoolStats is waiting, all three commands have been
\* sent, and when it returns all three have settled.
C9_AllConcurrentAllSettled ==
    /\ gpc \in {"awaitPoolstats", "awaitBoth"} => \A c \in Cmds : cmds[c].st # "unsent"
    /\ gresult.returned => \A c \in Cmds : Settled(gresult.at[c])

\* C9 as the code has it: poolstats is sent first and awaited alone;
\* stratifierstats and connectorstats are sent only after it has settled and
\* always together; getPoolStats returns when poolstats has settled and the
\* other two have both resolved or one of them has rejected, the other one
\* possibly still pending.
C9_PoolstatsFirstThenPair ==
    /\ gpc = "awaitPoolstats" =>
          cmds["stratifierstats"].st = "unsent" /\ cmds["connectorstats"].st = "unsent"
    /\ (cmds["stratifierstats"].st = "unsent") = (cmds["connectorstats"].st = "unsent")
    /\ cmds["stratifierstats"].st # "unsent" => Settled(cmds["poolstats"])
    /\ gresult.returned =>
          /\ Settled(gresult.at["poolstats"])
          /\ \/ \A c \in {"stratifierstats", "connectorstats"} : gresult.at[c].st = "resolved"
             \/ \E c \in {"stratifierstats", "connectorstats"} : gresult.at[c].st = "rejected"

\* getPoolStats has returned on the rejection of stratifierstats while
\* connectorstats was still pending.
C9_Witness ==
    /\ gresult.returned
    /\ gresult.at["poolstats"].st = "resolved"
    /\ gresult.at["stratifierstats"].st = "rejected"
    /\ gresult.at["connectorstats"].st = "pending"

Persisted == LoadCache(disk).bestDiffs

SetMax(S) == CHOOSE v \in S : \A w \in S : v >= w

\* C1: on one cache object, after any sequence of updateBestDiffs and
\* getBestDiffFromAllSources calls in any order (nothing evicts in between),
\* the bestDiffs value stored for an identity is the maximum of all the
\* candidate figures passed for it, from the daemon and from the ckpool file
\* (0, nothing stored, when none was positive).
C1_StoredIsMaxOfPassed ==
    \A n \in WorkerNames : GetOr(mem.bestDiffs, n, 0) = SetMax(passed[n].seen \cup {0})

\* The highest figure was passed first and lower ones after it, both
\* functions having been called on the object.
C1_Witness ==
    \E n \in WorkerNames :
        /\ {1, MaxDiff} \subseteq passed[n].seen
        /\ passed[n].last < MaxDiff
        /\ n \in DOMAIN mem.lastSeenAt
        /\ GetOr(mem.bestDiffs, n, 0) = MaxDiff

Identities(cache) == DOMAIN cache.bestDiffs \cup DOMAIN cache.workers \cup DOMAIN cache.lastSeenAt

\* What a cache holds for one identity (-1 and "" for what it does not hold).
EntryOf(cache, id) ==
    [bestDiff |-> GetOr(cache.bestDiffs, id, -1),
     minerType |-> GetOr(cache.workers, id, ""),
     lastSeen |-> GetOr(cache.lastSeenAt, id, -1)]

OlderThan(cache, id, cutoff) == id \in DOMAIN cache.lastSeenAt /\ cache.lastSeenAt[id] < cutoff

\* A prune with retention maxAge: the identities in old are gone, every other
\* one is as it was, and the number returned is the number of old ones.
PruneRemoved(pre, post, old, ret) ==
    /\ \A id \in Identities(pre) :
          IF id \in old THEN id \notin Identities(post) ELSE EntryOf(post, id) = EntryOf(pre, id)
    /\ Identities(post) \subseteq Identities(pre)
    /\ post.users = pre.users
    /\ ret = Cardinality(old)

\* C5 as stated: pruneInactiveWorkers(maxAgeDays) at clock now removes exactly
\* the identities of the cache whose lastSeenAt is present and strictly older
\* than now - maxAgeDays days, keeps every other one, and returns the number
\* removed.
C5_RemovesExactlyTheOld ==
    [][ev'.op = "prune" =>
          LET pre == LoadCache(disk)
              cutoff == now - ev'.maxAge * SecondsPerDay
          IN PruneRemoved(pre, LoadCache(disk'),
                          {id \in Identities(pre) : OlderThan(pre, id, cutoff)}, ev'.ret)]_vars

\* C5 as the code has it: the identities removed are exactly those that have
\* a bestDiffs entry and a lastSeenAt strictly older than the cutoff; an
\* identity known only by lastSeenAt or miner type stays however old it is.
C5_RemovesExactlyTheOldRanked ==
    [][ev'.op = "prune" =>
          LET pre == LoadCache(disk)
              cutoff == now - ev'.maxAge * SecondsPerDay
          IN PruneRemoved(pre, LoadCache(disk'),
                          {id \in DOMAIN pre.bestDiffs : OlderThan(pre, id, cutoff)}, ev'.ret)]_vars

\* A prune removed one identity and left another one that is as old but has
\* no bestDiffs entry.
C5_Witness ==
    /\ ev.op = "prune" /\ ev.ret = 1
    /\ \E id \in DOMAIN LoadCache(disk).lastSeenAt :
          /\ id \notin DOMAIN Persisted
          /\ LoadCache(disk).lastSeenAt[id] < now - ev.maxAge * SecondsPerDay

\* C6: for every retention, a prune leaves an identity without a recorded
\* lastSeenAt as it was: its bestDiffs and workers entries are unchanged.
C6_NoLastSeenNeverRemoved ==
    [][ev'.op = "prune" =>
          \A id \in Identities(LoadCache(disk)) :
              id \notin DOMAIN LoadCache(disk).lastSeenAt =>
                  EntryOf(LoadCache(disk'), id) = EntryOf(LoadCache(disk), id)]_vars

\* A prune removed some identity and an entry without lastSeenAt is still there.
C6_Witness ==
    /\ ev.op = "prune" /\ ev.ret >= 1
    /\ \E id \in DOMAIN Persisted : id \notin DOMAIN LoadCache(disk).lastSeenAt

\* C7: a prune that follows a prune with the same retention, nothing
\* happening in between, removes nothing and leaves the file as it is.
C7_PruneIdempotent ==
    [][(ev'.op = "prune" /\ ev'.first >= 0) => (ev'.ret = 0 /\ disk' = disk)]_vars

\* The second of two prunes in a row returned 0 after the first had removed some.
C7_Witness == ev.op = "prune" /\ ev.first >= 1 /\ ev.ret = 0

\* The bytes of the reply read from the socket so far.
Received ==
    IF fghost.out = <<>> THEN <<>>
    ELSE SubSeq(Frame(fghost.payload), 1, Len(Frame(fghost.payload)) - Len(wire))

\* C11: when the daemon has closed the connection, the call has resolved with
\* the frame's payload if the whole frame was read; has resolved with the
\* decode (JSON, else the raw string) of what the buffer holds if the buffer
\* is not empty and the frame is incomplete, the buffer being the bytes read
\* without the prefix once four of them were read; and is rejected with
\* 'Connection closed without response' if the buffer is empty, which it is
\* when nothing was read.
C11_OutcomeOnDaemonClose ==
    sock = "ended" =>
        /\ IF Delivered
           THEN outcome = Resolved(ParseOrRaw(Utf8ToString(fghost.payload)))
           ELSE IF responseBuffer # <<>>
           THEN outcome = Resolved(ParseOrRaw(Utf8ToString(responseBuffer)))
           ELSE outcome = Rejected("Connection closed without response")
        /\ ~Delivered =>
              responseBuffer = IF Len(Received) < 4 THEN Received ELSE SliceFrom(Received, 4)
        /\ Received = <<>> => outcome = Rejected("Connection closed without response")

\* The daemon closed after the prefix and a part of the payload: the call
\* resolved with the decode of that part.
C11_Witness ==
    /\ sock = "ended"
    /\ ~Delivered
    /\ Len(Received) > 4
    /\ outcome = Resolved(ParseOrRaw(Utf8ToString(SliceFrom(Received, 4))))

\* C13: getBestDiffFromAllSources returns the maximum of the cached value, the
\* candidate and the figures of the ckpool file, a missing entry or file
\* counting 0, and sets the cache's entry to that maximum exactly when it is
\* above the cached value; otherwise the cache object is as it was.
C13_ReturnsMaxAndStoresWhenHigher ==
    call.fn = "getBestDiffFromAllSources" =>
        LET cached == IF call.fullName \in DOMAIN call.before.bestDiffs
                      THEN call.before.bestDiffs[call.fullName] ELSE 0
            onDisk == IF call.wf.exists THEN {call.wf.bestever, call.wf.bestshare} ELSE {0}
            top == SetMax({cached, call.currentBest} \cup onDisk)
        IN /\ call.best = top
           /\ call.after = IF top > cached
                           THEN [call.before EXCEPT !.bestDiffs = Put(@, call.fullName, top)]
                           ELSE call.before

\* The file's figure was above the cached value and the candidate: it was
\* returned and stored.
C13_Witness ==
    /\ call.fn = "getBestDiffFromAllSources"
    /\ call.fullName \in DOMAIN call.before.bestDiffs
    /\ call.wf.exists
    /\ call.wf.bestshare > call.before.bestDiffs[call.fullName]
    /\ call.wf.bestshare > call.currentBest
    /\ call.wf.bestshare > call.wf.bestever
    /\ call.best = call.wf.bestshare
    /\ call.after.bestDiffs[call.fullName] = call.wf.bestshare

\* C12: when a request that merges has completed, every bestDiffs value of
\* the cache object it worked on is in the persisted file: no raise made in
\* memory is left unwritten.
C12_RaisedValuesPersisted ==
    call.fn \in Routes =>
        \A id \in DOMAIN mem.bestDiffs : GetOr(Persisted, id, 0) >= mem.bestDiffs[id]

\* A page request whose merge met a stored value at least the API value and
\* the ckpool file's value.
StoredHighestOnPage ==
    /\ call.fn \in {"stats", "worker"}
    /\ call.merge.merged
    /\ call.merge.stored >= call.merge.currentBest
    /\ call.merge.stored >= call.merge.fileBest

GatedRequest == call.fn = "api" /\ ~call.limited /\ call.req.path # HealthPath

\* C15: a request on a path other than /health reaches a route handler only
\* if it carries x-pool-request 'internal' and the process's token in
\* x-pool-token; one that lacks either is answered 403 by protectApi and
\* does not reach the routes.
C15_TokenAndMarkerRequired ==
    /\ (call.fn = "api" /\ call.req.path # HealthPath /\ call.routed)
           => (call.req.marker = "internal" /\ call.req.token = API_TOKEN)
    /\ (GatedRequest /\ ~(call.req.marker = "internal" /\ call.req.token = API_TOKEN))
           => (call.status = "403" /\ ~call.routed)

C15_Witness ==
    /\ GatedRequest
    /\ call.req.marker = "internal"
    /\ call.req.token = "0000-some-other-token"
    /\ call.status = "403"
    /\ ~call.routed

\* C16: a request on a path other than /health that carries marker and
\* token and whose Origin is present and neither contains the serving host
\* nor a loopback name is answered 403 'Cross-origin requests not allowed',
\* whatever its Referer.
C16_ForeignOriginRejected ==
    (/\ GatedRequest
     /\ call.req.marker = "internal"
     /\ call.req.token = API_TOKEN
     /\ call.req.origin # NoHeader
     /\ ~IsValidSource(call.req.origin, call.req.host))
        => (call.status = "403" /\ call.error = "Cross-origin requests not allowed" /\ ~call.routed)

\* C17: every request is counted by the rate limiter and answered 429
\* exactly when its count in the window exceeds RATE_LIMIT_MAX, whatever it
\* presents to protectApi; a request to /health that was not answered 429
\* reaches the routes without marker, token or origin check.
C17_HealthCountedNotAuthenticated ==
    call.fn = "api" =>
        /\ call.count = call.before + 1
        /\ rateLimitStore[call.ip].count = call.count
        /\ call.limited <=> call.count > RATE_LIMIT_MAX
        /\ call.limited => (call.status = TooMany /\ ~call.routed)
        /\ (call.req.path = HealthPath /\ ~call.limited) => call.routed

C17_Witness ==
    /\ call.fn = "api"
    /\ call.req.path = HealthPath
    /\ call.req.token = ""
    /\ call.count = RATE_LIMIT_MAX + 1
    /\ call.status = TooMany
    /\ rghost[BurstKey].n > RATE_LIMIT_MAX
    /\ \E k \in ClientKeys \ {BurstKey} : rghost[k].last = Pass /\ rghost[k].n > 0

\* A GET /pool request during which the daemon failed: getPoolStats had
\* nothing but nulls to return.
UpstreamFailed ==
    /\ call.fn = "GET /pool"
    /\ call.asked
    /\ call.raw = [poolstats |-> Null, stratifier |-> Null, connector |-> Null]

\* C18: on daemon failure during GET /pool the last good snapshot is
\* returned with stale: true when there is one, otherwise the answer is 500
\* with success: false; the failed call does not replace the snapshot.
C18_StaleSnapshotOnFailure ==
    UpstreamFailed =>
        /\ IF call.before.has
           THEN call.status = 200 /\ call.stale /\ call.data = call.before.data
           ELSE call.status = 500 /\ ~call.success
        /\ poolCache = call.before

\* C19: no request handler, whatever it loads, merges, touches and persists
\* and whether or not its load of the cache file succeeds, removes an
\* identity from the persisted bestDiffs or lowers its value.
C19_HandlersKeepEntries ==
    [][\A id \in DOMAIN Persisted :
          id \in DOMAIN Persisted' /\ Persisted'[id] >= Persisted[id]]_vars

\* C20: loadCache on a document that lacks any of the four top-level keys
\* returns an object that has all four, so that updateFromClients,
\* updateBestDiffs, getMinerType and the prune run on it without error.
C20_MissingKeysDefaultToEmpty ==
    call.fn = "loadCache" =>
        /\ call.loaded.keys = TopLevelKeys
        /\ ~call.throws.updateFromClients
        /\ ~call.throws.updateBestDiffs
        /\ ~call.throws.getMinerType
        /\ ~call.throws.prune

\* The miner types a worker's own record may hold that are no concrete type.
NoType == {"Unknown", "Unknown Miner"}

C22_WorkerThenOwnerThenUnknown ==
    call.fn = "getMinerType" =>
        LET name == call.fullName
            owner == IF Len(name) >= 1 THEN <<name[1]>> ELSE <<>>
        IN  call.type =
              IF name \in DOMAIN call.cache.workers THEN call.cache.workers[name]
              ELSE IF owner # <<>> /\ owner[1] \in DOMAIN call.cache.users THEN call.cache.users[owner[1]]
              ELSE "Unknown"

C22_Witness ==
    /\ call.fn = "getMinerType"
    /\ call.fullName = <<Address, Rig>>
    /\ <<Address, Rig>> \notin DOMAIN call.cache.workers
    /\ Address \in DOMAIN call.cache.users
    /\ call.type = "Antminer S19"

\* The greatest of four.
Max4(a, b, c, d) == Max2(Max2(a, b), Max2(c, d))

\* C23: the best difficulty a parser reports for a raw record is the
\* maximum of the record's bestever, bestshare, bestdiff and best_diff.
C23_BestIsMaxOfCandidates ==
    (call.fn \in {"parseUserStats", "parseWorkerStats", "parseClientInfo"} /\ ~call.out.null)
        => call.out.bestDiff = Max4(call.raw.bestever, call.raw.bestshare, call.raw.bestdiff,
                                    IF call.fn = "parseClientInfo" THEN 0 ELSE call.raw.best_diff)

\* A call of one of the three places that compute isIdle, on a record.
IdleComputed == call.fn \in {"parseUserStats", "parseWorkerStats", "worker page"} /\ ~call.out.null

\* C24: a worker is reported idle exactly when its last share is more than
\* 300 seconds old or the live connection reports idle, by parseWorkerStats,
\* parseUserStats and the worker page alike.
C24_IdleByAgeOrFlag ==
    IdleComputed =>
        (call.out.isIdle <=>
            \/ (call.raw.lastshare > 0 /\ ParseNow - call.raw.lastshare > IdleThreshold)
            \/ call.raw.idle)

\* A response with an error field, or the text 'unknown'.
ErrorShaped == call.raw.error # "" \/ call.raw.kind = "unknown"

\* C25 as stated: parseUserStats and parseWorkerStats return null for an
\* error-shaped response and a record for every other non-empty response.
C25_NullExactlyOnErrorShape ==
    call.fn \in {"parseUserStats", "parseWorkerStats"} =>
        /\ ErrorShaped => call.out.null
        /\ (~ErrorShaped /\ call.raw.kind # "empty") => ~call.out.null

\* C25: parseUserStats and parseWorkerStats return null for an empty
\* response, for one with an error field and for the text 'unknown';
\* parseUserStats also returns null for any text that includes 'error'; for
\* every other response they return a record.
C25_NullOnErrorShapeOrErrorText ==
    call.fn \in {"parseUserStats", "parseWorkerStats"} =>
        (call.out.null <=>
            \/ call.raw.kind = "empty"
            \/ ErrorShaped
            \/ (call.fn = "parseUserStats" /\ call.raw.kind = "error text"))

C25_Witness ==
    /\ call.fn = "parseUserStats"
    /\ call.raw.kind = "object"
    /\ call.raw.error = "unknown"
    /\ call.raw.bestever = 1
    /\ call.out.null

\* C26: for each of the seven horizons the hashrate parsePoolStats reports
\* from a poolstats reply is that horizon's own dsps counter times 2^32,
\* and 0 when the counter is missing; dsps1 = 2.5 gives 10737418240, which
\* is 5 * 2^31.
C26_HashrateIsOwnCounterTimes2To32 ==
    (call.fn = "parsePoolStats" /\ ~call.poolstats.null /\ ~call.poolstats.error) =>
        \A h \in Horizons :
            LET d == call.poolstats.dsps[CounterOf(h)]
                r == call.pool[h]
            IN  /\ d = Zero => r = Zero
                /\ d # Zero => (r.m = d.m /\ r.e = d.e + 32)
                /\ d = [m |-> 5, e |-> -1] => r = [m |-> 5, e |-> 31]

C26_Witness ==
    /\ call.fn = "parsePoolStats"
    /\ ~call.poolstats.null /\ ~call.poolstats.error
    /\ call.poolstats.dsps["dsps1"] = [m |-> 5, e |-> -1]
    /\ call.poolstats.dsps["dsps5"] = [m |-> 3, e |-> 0]
    /\ call.poolstats.dsps["dsps15"] = Zero
    /\ call.pool["hashrate1m"] = [m |-> 5, e |-> 31]
    /\ call.pool["hashrate15m"] = Zero

\* C27: a request of a client that has a window is counted in that window
\* when it arrives at most RATE_LIMIT_WINDOW after the window's start; when
\* it arrives later it is allowed and starts a new window with count 1,
\* however many requests the old window counted.
C27_WindowResetsOnlyAfterW ==
    [][\A ip \in ClientKeys :
          (rghost'[ip] # rghost[ip] /\ Has(rateLimitStore, ip)) =>
              IF rnow - rateLimitStore[ip].windowStart > RATE_LIMIT_WINDOW
              THEN /\ rateLimitStore'[ip] = [windowStart |-> rnow, count |-> 1]
                   /\ rghost'[ip].last = Pass
              ELSE rateLimitStore'[ip] = [windowStart |-> rateLimitStore[ip].windowStart,
                                          count |-> rateLimitStore[ip].count + 1]]_vars

\* The burst client, rejected in a window that started at 0, asks again one
\* millisecond after the window's length and is allowed.
C27_Witness ==
    /\ call.fn = "rateLimit" /\ call.ip = BurstKey
    /\ call.old.has /\ call.old.windowStart = 0 /\ call.old.count > RATE_LIMIT_MAX
    /\ call.t = RATE_LIMIT_WINDOW + 1
    /\ call.status = Pass
    /\ rateLimitStore[BurstKey] = [windowStart |-> RATE_LIMIT_WINDOW + 1, count |-> 1]

\* A request on one of the two stats routes whose address fails the format
\* check: wrong prefix, a character outside the class, or a length outside
\* 25..62 after the prefix.
InvalidAddressRequest ==
    /\ call.fn \in {"GET /api/stats/:address", "GET /stats/:address"}
    /\ \/ call.address.prefix \notin {"1", "3", "bc1"}
       \/ call.address.bad
       \/ call.address.len < 25
       \/ call.address.len > 62

\* C28 as stated: a stats request with an address that fails the format
\* check is answered 400, and no daemon command is sent and no cache
\* operation performed.
C28_InvalidAddress400 ==
    InvalidAddressRequest =>
        /\ call.status = 400
        /\ call.commands = {}
        /\ call.cacheOps = 0

\* C28: a stats request with an address that fails the format check gets
\* the error 'Invalid Bitcoin address', with status 400 on the API route
\* and as a rendered page with status 200 on the page route; no daemon
\* command is sent and no cache operation performed.
C28_InvalidAddressNoDaemonCall ==
    InvalidAddressRequest =>
        /\ call.error = "Invalid Bitcoin address"
        /\ call.status = IF call.fn = "GET /api/stats/:address" THEN 400 ELSE 200
        /\ call.commands = {}
        /\ call.cacheOps = 0

C28_Witness ==
    /\ InvalidAddressRequest
    /\ call.fn = "GET /stats/:address"
    /\ call.address.prefix = "bc1" /\ ~call.address.bad /\ call.address.len = 24
    /\ call.status = 200
    /\ call.commands = {}

\* C29: when a caller of loadCache and saveCache meets a read or a write
\* failure of the cache file, no exception leaves either function,
\* loadCache hands out the empty cache after a failed read, and the worker
\* page or the sweep that called them runs to its end.
C29_CacheFileFailuresNotFatal ==
    (call.fn \in {"sweep", "worker page"} /\ (call.readFails \/ call.writeFails)) =>
        /\ ~call.loadThrew
        /\ call.readFails => call.empty
        /\ ~call.saveThrew
        /\ call.completed

\* A worker page whose loadCache met a read failure and whose saveCache met
\* a write failure, over an existing cache file.
C29_Witness ==
    /\ call.fn = "worker page"
    /\ call.readFails /\ call.writeFails
    /\ call.empty /\ call.wrote
    /\ call.completed
    /\ disk.exists

\* C30: the sweeper has not run while less than one hour has passed since
\* the process started; it has run once that hour is over, the first time
\* at exactly one hour; each later run is 24 hours after the one before,
\* and no more than 24 hours pass after a run without the next.
C30_SweeperAfterDelayThenDaily ==
    LET hour == 60 * 60 * 1000
        day == 24 * hour
    IN /\ uptime < hour => runs = <<>>
       /\ uptime > hour => runs # <<>>
       /\ runs # <<>> => runs[1] = hour
       /\ \A i \in 2..Len(runs) : runs[i] = runs[i - 1] + day
       /\ runs # <<>> => uptime <= runs[Len(runs)] + day

\* The sweeper has run twice: after one hour and after 25 hours.
C30_Witness ==
    /\ Len(runs) >= 2
    /\ runs[1] = InitialDelay
    /\ runs[2] = InitialDelay + SweepPeriod
    /\ uptime > runs[2]

\* C31: for an identity that has a lastSeenAt before and after a step, the
\* step does not lower it, and a step that changes it sets it to the
\* current time, the latest at which the identity was observed.
C31_LastSeenNeverLowered ==
    [][\A name \in DOMAIN LoadCache(disk).lastSeenAt \cap DOMAIN LoadCache(disk').lastSeenAt :
          /\ LoadCache(disk').lastSeenAt[name] >= LoadCache(disk).lastSeenAt[name]
          /\ LoadCache(disk').lastSeenAt[name] # LoadCache(disk).lastSeenAt[name]
                 => LoadCache(disk').lastSeenAt[name] = now']_vars

\* The rig was observed again two periods after the bare address.
C31_Witness ==
    /\ Has(LoadCache(disk).lastSeenAt, <<Address>>)
    /\ Has(LoadCache(disk).lastSeenAt, <<Address, Rig>>)
    /\ LoadCache(disk).lastSeenAt[<<Address>>] = StartTime
    /\ LoadCache(disk).lastSeenAt[<<Address, Rig>>] = StartTime + 2 * Period
    /\ now = StartTime + 2 * Period

\* C32: when 'timeout' is emitted on a call that has not settled, the
\* socket is destroyed and the call is rejected with 'Socket timeout'; and
\* from then on no event changes that outcome or brings the socket back.
C32_TimeoutDestroysAndSticks ==
    [][/\ (IF call'.fn = "sendCommand" THEN call'.event = "timeout" /\ call'.was = Pending ELSE FALSE)
           => (sock' = "destroyed" /\ outcome' = Rejected("Socket timeout"))
       /\ outcome = Rejected("Socket timeout")
           => (outcome' = outcome /\ sock' \in {"destroyed", "closed"})]_vars

\* After the timeout, the rest of the reply arrived and the socket closed.
C32_Witness ==
    /\ outcome = Rejected("Socket timeout")
    /\ sock = "closed"
    /\ fghost.out # <<>> /\ Len(fghost.payload) > 0 /\ wire = <<>>
    /\ Len(responseBuffer) = Len(fghost.payload)

C35_NoTruncatedPayload ==
    (outcome.kind = "resolved" /\ expectedLength # -1) =>
        outcome = Resolved(ParseOrRaw(Utf8ToString(fghost.payload)))

C36_CleanUpTransparent ==
    call.fn = "rateLimit, clean-up off" =>
        /\ call.status = call.statusOff
        /\ DOMAIN rateLimitStore \subseteq DOMAIN call.storeOff
        /\ \A ip \in DOMAIN rateLimitStore : rateLimitStore[ip] = call.storeOff[ip]

\* The burst client's entry had reached the limit and was deleted by the
\* clean-up; its next request is allowed, as it is without the clean-up.
C36_Witness ==
    /\ call.fn = "rateLimit, clean-up off"
    /\ call.ip = BurstKey
    /\ call.cleaned
    /\ call.offCount > RATE_LIMIT_MAX
    /\ call.status = Pass /\ call.statusOff = Pass

\* C37: every identity in the persisted bestDiffs mapping has a lastSeenAt
\* in the persisted cache (the file starts absent, so every entry was added
\* by a request handler).
C37_AddedEntriesHaveLastSeen ==
    DOMAIN LoadCache(disk).bestDiffs \subseteq DOMAIN LoadCache(disk).lastSeenAt

\* C38: for a worker the daemon reports under any of its name shapes, the
\* stats page stores its best difficulty under the key updateBestDiffs and
\* the leaderboard use.
C38_SameKeyAtEveryMergeSite ==
    call.fn = "merge keys" =>
        /\ call.update = {call.name}
        /\ call.rank = call.update
        /\ call.page = call.update

\* C39: a request that sent a daemon command or wrote the cache went
\* through rateLimit and was not over its limit: an API request reached the
\* routes only when not answered 429, and a page request was counted and
\* within the limit.
C39_NoHandlerWithoutRateLimit ==
    /\ (call.fn = "api" /\ call.routed) => ~call.limited
    /\ (call.fn = "page" /\ (call.commands # {} \/ call.writes > 0)) => (call.counted /\ ~call.over)

====
